---- MODULE Spec2Model ----
(***************************************************************************)
(* State-machine model of the Sentry/ClickUp editor extension:             *)
(*   - StoreManager with the two zustand stores (issues by project,        *)
(*     issue -> task URL) and its change emitter;                          *)
(*   - SentryClient.fetchAllIssues and the comment correlation loop.       *)
(* JavaScript runs every handler to its next network await without         *)
(* interruption, so one action is one such run: the start of a call up to  *)
(* its first request, or the resumption after a response up to the next    *)
(* request (or to the end of the call).                                    *)
(***************************************************************************)
EXTENDS Integers, Sequences, FiniteSets, TLC

\* ------------------------------------------------------------------ bounds
NumTasks == 2     \* async calls of the extension that may be in flight together
MaxCalls == 3     \* calls made to the StoreManager in one run

Null == "null"
Fail == "fail"         \* a request that ended in a transport error or timeout

Tasks == 1..NumTasks
Groups == {"g1", "g2"}
Urls == {"u1", "u2"}
ListIds == {"l1"}

\* projectSlugs settings the user may have saved (non-empty: initializeStores
\* only creates the StoreManager when the list has an entry)
SlugLists == {<<"g1">>, <<"g1", "g2">>}

\* board settings: absent (NoConfig) or present, with or without a selected list
ClickUpConfigs == {[present |-> TRUE, selectedListId |-> Null],
                   [present |-> TRUE, selectedListId |-> "l1"]}
NoConfig == [present |-> FALSE, selectedListId |-> Null]   \* a null config
NoClient == <<>>                                           \* a null SentryClient
NoIssue == "none"
NoScan == [issue |-> NoIssue, answer |-> "unscanned", created |-> FALSE]

\* the unresolved issues the tracker holds, per project
Upstream == [g \in Groups |-> IF g = "g1" THEN <<"i1">> ELSE <<"i2">>]
IssuesOf(g) == {Upstream[g][k] : k \in DOMAIN Upstream[g]}
AllIssues == UNION {IssuesOf(g) : g \in Groups}

\* what the tracker may answer to fetchProjectIssues(g): an error, no issue
\* (all resolved), or the project's issues
FetchFailed == [ok |-> FALSE, issues |-> <<>>]
FetchResponses(g) ==
    {FetchFailed, [ok |-> TRUE, issues |-> <<>>], [ok |-> TRUE, issues |-> Upstream[g]]}

\* what the tracker's comment thread of an issue may come to: the request
\* failed, no comment holds a task URL, or the first URL found
CommentResponses == {Fail, "none"} \cup Urls

\* what the board may answer to getLists
ListsFailed == [ok |-> FALSE, lists |-> <<>>]
ListResponses == {ListsFailed, [ok |-> TRUE, lists |-> <<>>], [ok |-> TRUE, lists |-> <<"l1">>]}

\* ------------------------------------------------------- a JavaScript Map
\* kept as a sequence of entries in insertion order
EmptyMap == <<>>
MapKeys(m) == {m[k].project : k \in DOMAIN m}
MapHas(m, key) == key \in MapKeys(m)
MapGet(m, key) == (CHOOSE e \in {m[k] : k \in DOMAIN m} : e.project = key).issues
MapSet(m, key, val) ==
    IF MapHas(m, key)
    THEN [k \in DOMAIN m |-> IF m[k].project = key
                             THEN [project |-> key, issues |-> val] ELSE m[k]]
    ELSE Append(m, [project |-> key, issues |-> val])

RECURSIVE AllValues(_)
\* the issues of every entry, in iteration order (the two nested for-of loops)
AllValues(m) == IF m = <<>> THEN <<>> ELSE Head(m).issues \o AllValues(Tail(m))

VARIABLES
    \* StoreManager fields
    sentryClient,      \* NoClient, or the projectSlugs of the client's config
    clickUpClient,     \* TRUE when a ClickUpClient object is held
    clickUpConfig,     \* NoConfig, or the current board config
    \* useSentryStore
    issuesByProject,
    \* useClickUpStore
    lists, selectedListId, isEnabled, issueTaskMap,
    \* the async calls in flight, one record each (IdleTask: a free slot)
    task,
    \* history
    lastDone,          \* the call that returned last: its name, result, events fired
    lastPass,          \* the fetchAllIssues pass that ended last: the projects
                       \* asked for, the answers, the map handed to the store
    created,           \* the issues a createClickUpTask has recorded a URL for
    calls,             \* the calls made so far
    \* IssueStore (the single-store variant): its fields, and its one refresh
    \* that can be past the isRefreshing guard
    issueStore, storeCall,
    \* SentryWebViewProvider of the single-file extension: its fields, and
    \* its loadIssues calls in flight
    webviewProvider,
    \* SentryMCPServer: its fields, and the answer to the last tool call
    mcpServer, response,
    \* the module-level state of the extension (storeManager, webviewProvider)
    extension,
    \* the functions that keep no state (search, filter, sort, parsing): the
    \* last application, its inputs and its output
    call, result

vars == <<sentryClient, clickUpClient, clickUpConfig, issuesByProject,
          lists, selectedListId, isEnabled, issueTaskMap,
          task, lastDone, lastPass, created, calls,
          issueStore, storeCall, webviewProvider, mcpServer, response,
          extension, call, result>>

legacyVars == <<issueStore, storeCall, webviewProvider>>
mcpVars == <<mcpServer, response, extension>>
pureVars == <<call, result>>
managerVars == <<sentryClient, clickUpClient, clickUpConfig, issuesByProject,
                 lists, selectedListId, isEnabled, issueTaskMap,
                 task, lastDone, lastPass, created, calls>>

\* pc: where the call is suspended; op: the StoreManager method called;
\* slugs: the projectSlugs array fetchAllIssues iterates over;
\* todo: the part of it fetchAllIssues has still to fetch; fetched: its local
\* map; resp: the tracker's answers so far (history); scan: the issues the
\* correlation loop has still to visit; lastScan: its last visit (history: the
\* issue, the answer, whether a create had recorded a URL for it before); cu/cuArg: the getLists
\* request of refreshClickUp and the config it was called with; arg: the issue
\* id of createClickUpTask; fired: emitter.fire() calls of this call so far
IdleTask ==
    [pc |-> "idle", op |-> "none", slugs |-> <<>>, todo |-> <<>>, fetched |-> EmptyMap,
     resp |-> <<>>, scan |-> <<>>, lastScan |-> NoScan, cu |-> "off",
     cuArg |-> NoConfig, arg |-> NoIssue, fired |-> 0]

NoCall == [op |-> "none", ret |-> "none", fired |-> 0]
NoPass == [slugs |-> <<>>, resp |-> <<>>, result |-> EmptyMap]

\* IssueStore after `new IssueStore(context, null)` on an empty workspace
\* state; cached: what workspaceState holds under "sentryIssues"
NoCache == [present |-> FALSE, data |-> EmptyMap]
NewIssueStore ==
    [sentryClient |-> NoClient, issuesByProject |-> EmptyMap,
     isRefreshing |-> FALSE, cached |-> NoCache]

\* the refresh that holds isRefreshing. pc: where it is suspended; todo and
\* fetched: as in a task; result: what fetchAllIssues returned to it;
\* coalesced (history): the value handed to the last call that found
\* isRefreshing set while this refresh was in flight
NotCoalesced == [any |-> FALSE, got |-> EmptyMap]
IdleStoreCall ==
    [pc |-> "idle", todo |-> <<>>, fetched |-> EmptyMap, result |-> EmptyMap,
     coalesced |-> NotCoalesced]

\* the module variable webviewProvider of the single-file extension before
\* initializeSentry has made the provider. made: whether it holds one;
\* sentryClient: the projectSlugs of the client the provider was given;
\* loads: its loadIssues calls in flight, one per trigger (the interval
\* timer, the refreshIssues command); shown: the issues last posted to the view
Triggers == {"timer", "command"}
IdleLoad == [pc |-> "idle", todo |-> <<>>, fetched |-> EmptyMap]
NoProvider ==
    [made |-> FALSE, sentryClient |-> NoClient, issuesByProject |-> EmptyMap,
     isLoading |-> FALSE, loads |-> [t \in Triggers |-> IdleLoad],
     shown |-> EmptyMap]

\* SentryMCPServer before the extension has built one; storeManager,
\* clickUpConfig, clickUpClient: whether the field is non-null; env: whether
\* the process environment it was built in holds the board settings
NoServer ==
    [made |-> FALSE, storeManager |-> FALSE, clickUpConfig |-> FALSE,
     clickUpClient |-> FALSE, env |-> FALSE]
\* no function applied yet
\* the extension before activate() has run initializeStores: configured:
\* whether the last initializeStores found a complete tracker config;
\* storeManager: whether the variable holds a StoreManager; disposed: whether
\* a StoreManager has been disposed of; webviewProvider: "none", or whether
\* the StoreManager it was made with is the "current" or a "disposed" one
NotActivated ==
    [configured |-> FALSE, storeManager |-> FALSE, disposed |-> FALSE,
     webviewProvider |-> "none"]

NotApplied == [fn |-> "none"]
NoResult == [entries |-> <<>>]

NoResponse ==
    [tool |-> "none", isError |-> FALSE, text |-> "none", raised |-> FALSE,
     requests |-> {}]

Init ==
    /\ sentryClient = NoClient
    /\ clickUpClient = FALSE
    /\ clickUpConfig = NoConfig
    /\ issuesByProject = EmptyMap
    /\ lists = <<>>
    /\ selectedListId = Null
    /\ isEnabled = FALSE
    /\ issueTaskMap = [i \in AllIssues |-> Null]
    /\ task = [p \in Tasks |-> IdleTask]
    /\ lastDone = NoCall
    /\ lastPass = NoPass
    /\ created = {}
    /\ calls = 0
    /\ issueStore = NewIssueStore
    /\ storeCall = IdleStoreCall
    /\ webviewProvider = NoProvider
    /\ mcpServer = NoServer
    /\ response = NoResponse
    /\ extension = NotActivated
    /\ call = NotApplied
    /\ result = NoResult

\* ------------------------------------------------- SentryClient (tracker)
\* fetchAllIssues, one turn of its loop: the entry written for project g after
\* the answer r of fetchProjectIssues(g) (try: the issues, catch: [])
AfterFetch_NoEntryOnError(m, g, r) == IF r.ok THEN MapSet(m, g, r.issues) ELSE m
AfterFetch(m, g, r) == MapSet(m, g, IF r.ok THEN r.issues ELSE <<>>)

\* parseClickUpUrlFromComments: the URL of the first comment that has one, or
\* null (getIssueComments turns a failed request into no comments)
ParsedUrl(r) == IF r \in Urls THEN r ELSE Null

\* ------------------------------------------------------- useClickUpStore
\* the correlation loop's `if (clickUpUrl) setTaskMapping(issue.id, clickUpUrl)`
Correlated_Clearing(m, i, url) == [m EXCEPT ![i] = url]
Correlated(m, i, url) == IF url # Null THEN [m EXCEPT ![i] = url] ELSE m

\* setTaskMapping, and the same write in createTask
Recorded(m, i, url) == [m EXCEPT ![i] = url]

\* refresh, after getLists answered: config.selectedListId || lists[0]?.id || null
SelectedAfterRefresh(cfg, ls) ==
    IF cfg.selectedListId # Null THEN cfg.selectedListId
    ELSE IF Len(ls) > 0 THEN ls[1] ELSE Null

\* ---------------------------------------------------------- StoreManager
\* createClickUpTask: the two guards before the board is called
CreateCheck_NoListGuard ==
    IF ~clickUpClient \/ ~clickUpConfig.present THEN "NotConfigured" ELSE "ok"
CreateCheck ==
    IF ~clickUpClient \/ ~clickUpConfig.present THEN "NotConfigured"
    ELSE IF selectedListId = Null THEN "NoListSelected"
    ELSE "ok"

\* refreshClickUp goes to the board only with a client and a config
ClickUpReady == clickUpClient /\ clickUpConfig.present

\* A call takes the first free slot (the slots are interchangeable); a run
\* makes at most MaxCalls calls.
FreeSlot(p) ==
    /\ calls < MaxCalls
    /\ calls' = calls + 1
    /\ task[p].pc = "idle"
    /\ \A q \in Tasks : q < p => task[q].pc # "idle"

Returned(t, r, f) == [op |-> t.op, ret |-> r, fired |-> f]

\* refreshSentry has fired its event (f events so far in call t) and returns
\* to its caller, which runs on to its next request or to its end:
\*   initialize goes on to refreshClickUp and then fires;
\*   refreshAll waits for its refreshClickUp and then fires.
AfterSentry_FiresTwice(t, f) ==
    CASE t.op = "initialize" ->
           IF ClickUpReady
           THEN [done |-> FALSE, enable |-> TRUE, fired |-> f,
                 t |-> [t EXCEPT !.pc = "join", !.cu = "lists",
                                 !.cuArg = clickUpConfig, !.fired = f]]
           ELSE [done |-> TRUE, enable |-> FALSE, fired |-> f + 1, t |-> t]
      [] t.op = "refreshAll" ->
           IF t.cu = "lists"
           THEN [done |-> FALSE, enable |-> FALSE, fired |-> f,
                 t |-> [t EXCEPT !.pc = "join", !.fired = f]]
           ELSE [done |-> TRUE, enable |-> FALSE, fired |-> f + 1, t |-> t]
      [] OTHER -> [done |-> TRUE, enable |-> FALSE, fired |-> f + 1, t |-> t]
AfterSentry(t, f) ==
    CASE t.op = "initialize" ->
           IF ClickUpReady
           THEN [done |-> FALSE, enable |-> TRUE, fired |-> f,
                 t |-> [t EXCEPT !.pc = "join", !.cu = "lists",
                                 !.cuArg = clickUpConfig, !.fired = f]]
           ELSE [done |-> TRUE, enable |-> FALSE, fired |-> f + 1, t |-> t]
      [] t.op = "refreshAll" ->
           IF t.cu = "lists"
           THEN [done |-> FALSE, enable |-> FALSE, fired |-> f,
                 t |-> [t EXCEPT !.pc = "join", !.fired = f]]
           ELSE [done |-> TRUE, enable |-> FALSE, fired |-> f + 1, t |-> t]
      [] OTHER -> [done |-> TRUE, enable |-> FALSE, fired |-> f, t |-> t]

\* the call of slot p goes on as n says
Continue(p, n) ==
    /\ task' = [task EXCEPT ![p] = IF n.done THEN IdleTask ELSE n.t]
    /\ lastDone' = IF n.done THEN Returned(task[p], "ok", n.fired) ELSE lastDone
    /\ isEnabled' = IF n.enable THEN TRUE ELSE isEnabled

\* initialize(sentryConfig, clickUpConfig), up to the first request of
\* refreshSentry -> useSentryStore.refresh -> fetchAllIssues
\* held: whether the StoreManager it is called on holds a ClickUpClient
InitializeCalled(p, sc, cc, held) ==
    /\ FreeSlot(p)
    /\ sentryClient' = sc
    /\ clickUpConfig' = cc
    /\ clickUpClient' = IF cc.present THEN TRUE ELSE held
    /\ task' = [task EXCEPT ![p] =
                  [IdleTask EXCEPT !.pc = "fetch", !.op = "initialize",
                                   !.slugs = sc, !.todo = sc]]
    /\ UNCHANGED legacyVars
    /\ UNCHANGED <<issuesByProject, lists, selectedListId, isEnabled,
                   issueTaskMap, lastDone, lastPass, created>>

Initialize(p, sc, cc) ==
    InitializeCalled(p, sc, cc, clickUpClient) /\ UNCHANGED <<mcpVars, pureVars>>

\* refreshSentry(), called on its own (the view, after a resolve or a create),
\* up to its first request; without a client it clears the store and returns
RefreshSentryCalled(p) ==
    /\ FreeSlot(p)
    /\ IF sentryClient = NoClient
       THEN /\ issuesByProject' = EmptyMap
            /\ lastDone' = [op |-> "refreshSentry", ret |-> "ok", fired |-> 0]
            /\ UNCHANGED task
       ELSE /\ task' = [task EXCEPT ![p] =
                  [IdleTask EXCEPT !.pc = "fetch", !.op = "refreshSentry",
                                   !.slugs = sentryClient, !.todo = sentryClient]]
            /\ UNCHANGED <<issuesByProject, lastDone>>
    /\ UNCHANGED <<legacyVars, mcpVars>>
    /\ UNCHANGED <<sentryClient, clickUpClient, clickUpConfig, lists,
                   selectedListId, isEnabled, issueTaskMap, lastPass, created>>

RefreshSentry(p) == RefreshSentryCalled(p) /\ UNCHANGED pureVars

\* refreshAll(): Promise.all starts refreshSentry and refreshClickUp together
\* and fires once more when both have returned
RefreshAll(p) ==
    /\ FreeSlot(p)
    /\ LET t0 == [IdleTask EXCEPT !.op = "refreshAll"]
           t1 == IF sentryClient = NoClient THEN t0
                 ELSE [t0 EXCEPT !.pc = "fetch", !.slugs = sentryClient,
                                 !.todo = sentryClient]
           t2 == IF ClickUpReady
                 THEN [t1 EXCEPT !.cu = "lists", !.cuArg = clickUpConfig,
                                 !.pc = IF t1.pc = "idle" THEN "join" ELSE t1.pc]
                 ELSE t1
       IN  /\ issuesByProject' =
                 IF sentryClient = NoClient THEN EmptyMap ELSE issuesByProject
           /\ isEnabled' = IF ClickUpReady THEN TRUE ELSE isEnabled
           /\ IF t2.pc = "idle"
              THEN /\ lastDone' = [op |-> "refreshAll", ret |-> "ok", fired |-> 1]
                   /\ UNCHANGED task
              ELSE /\ task' = [task EXCEPT ![p] = t2]
                   /\ UNCHANGED lastDone
    /\ UNCHANGED <<legacyVars, mcpVars, pureVars>>
    /\ UNCHANGED <<sentryClient, clickUpClient, clickUpConfig, lists,
                   selectedListId, issueTaskMap, lastPass, created>>

\* (a variant that writes every project's entry straight into the store)
FetchProject_WriteThrough(p) ==
    /\ task[p].pc = "fetch"
    /\ \E r \in FetchResponses(Head(task[p].todo)) :
         LET g == Head(task[p].todo)
             m == AfterFetch(task[p].fetched, g, r)
             t == [task[p] EXCEPT !.fetched = m, !.todo = Tail(@),
                                  !.resp = Append(@, [project |-> g, answer |-> r])]
         IN  IF t.todo # <<>>
             THEN /\ task' = [task EXCEPT ![p] = t]
                  /\ issuesByProject' = m
                  /\ UNCHANGED <<lastPass, lastDone, isEnabled>>
             ELSE /\ issuesByProject' = m
                  /\ lastPass' = [slugs |-> t.slugs, resp |-> t.resp, result |-> m]
                  /\ IF AllValues(m) = <<>>
                     THEN Continue(p, AfterSentry(
                              [t EXCEPT !.fetched = EmptyMap, !.resp = <<>>], t.fired + 1))
                     ELSE /\ task' = [task EXCEPT ![p] =
                                 [t EXCEPT !.pc = "correlate", !.scan = AllValues(m),
                                           !.fetched = EmptyMap, !.resp = <<>>]]
                          /\ UNCHANGED <<lastDone, isEnabled>>
    /\ UNCHANGED <<legacyVars, mcpVars, pureVars>>
    /\ UNCHANGED <<sentryClient, clickUpClient, clickUpConfig, lists,
                   selectedListId, issueTaskMap, created, calls>>

\* fetchAllIssues resumes with the tracker's answer for the next project;
\* after the last one useSentryStore.refresh replaces the map, and
\* refreshSentry starts the correlation loop over the store's issues.
FetchedProject(p) ==
    /\ task[p].pc = "fetch"
    /\ \E r \in FetchResponses(Head(task[p].todo)) :
         LET g == Head(task[p].todo)
             m == AfterFetch(task[p].fetched, g, r)
             t == [task[p] EXCEPT !.fetched = m, !.todo = Tail(@),
                                  !.resp = Append(@, [project |-> g, answer |-> r])]
         IN  IF t.todo # <<>>
             THEN /\ task' = [task EXCEPT ![p] = t]
                  /\ UNCHANGED <<issuesByProject, lastPass, lastDone, isEnabled>>
             ELSE /\ issuesByProject' = m
                  /\ lastPass' = [slugs |-> t.slugs, resp |-> t.resp, result |-> m]
                  /\ IF AllValues(m) = <<>>
                     THEN Continue(p, AfterSentry(
                              [t EXCEPT !.fetched = EmptyMap, !.resp = <<>>], t.fired + 1))
                     ELSE /\ task' = [task EXCEPT ![p] =
                                 [t EXCEPT !.pc = "correlate", !.scan = AllValues(m),
                                           !.fetched = EmptyMap, !.resp = <<>>]]
                          /\ UNCHANGED <<lastDone, isEnabled>>
    /\ UNCHANGED <<legacyVars, mcpVars>>
    /\ UNCHANGED <<sentryClient, clickUpClient, clickUpConfig, lists,
                   selectedListId, issueTaskMap, created, calls>>

FetchProject(p) == FetchedProject(p) /\ UNCHANGED pureVars

\* the correlation loop resumes with the comments of the next issue (one of
\* `answers`); after the last issue refreshSentry fires and returns
\* the issues the loop goes on to after a visit that was answered with r (a
\* failed comment request is caught inside getIssueComments)
RestOfScan_StopOnFail(scan, r) == IF r = Fail THEN <<>> ELSE Tail(scan)
RestOfScan(scan, r) == Tail(scan)

\* one visit of the loop, the comments request answered with r
Visited(p, r) ==
    /\ task[p].pc = "correlate"
    /\ LET i == Head(task[p].scan)
           t == [task[p] EXCEPT !.scan = RestOfScan(@, r),
                   !.lastScan = [issue |-> i, answer |-> r,
                                 created |-> i \in created]]
       IN  /\ issueTaskMap' = Correlated(issueTaskMap, i, ParsedUrl(r))
           /\ IF t.scan # <<>>
              THEN /\ task' = [task EXCEPT ![p] = t]
                   /\ UNCHANGED <<lastDone, isEnabled>>
              ELSE Continue(p, AfterSentry(t, t.fired + 1))
    /\ UNCHANGED <<legacyVars, mcpVars>>
    /\ UNCHANGED <<sentryClient, clickUpClient, clickUpConfig, issuesByProject,
                   lists, selectedListId, lastPass, created, calls>>

CorrelateIssue(p, answers) ==
    \E r \in answers : Visited(p, r) /\ UNCHANGED pureVars

\* the same visit, with the visits of the call written down (history): call
\* holds the fetch pass the loop follows, the task mapping as it was before
\* the first visit of the call and the issue and the answer of each visit
LoggedVisit(p, r) ==
    /\ Visited(p, r)
    /\ LET first == task[p].lastScan = NoScan
           visit == [issue |-> Head(task[p].scan), answer |-> r]
       IN call' = [fn |-> "correlation", pass |-> lastPass,
                   before |-> IF first THEN issueTaskMap ELSE call.before,
                   visits |-> IF first THEN <<visit>> ELSE Append(call.visits, visit)]
    /\ UNCHANGED result

\* useClickUpStore.refresh resumes with the board's answer to getLists;
\* refreshClickUp fires, and a caller that was waiting for it fires and returns
GetListsReturn(p) ==
    /\ task[p].cu = "lists"
    /\ \E r \in ListResponses :
         IF ~r.ok
         THEN UNCHANGED <<lists, selectedListId>>
         ELSE /\ lists' = r.lists
              /\ selectedListId' = SelectedAfterRefresh(task[p].cuArg, r.lists)
    /\ IF task[p].pc = "join"
       THEN /\ task' = [task EXCEPT ![p] = IdleTask]
            /\ lastDone' = Returned(task[p], "ok", task[p].fired + 2)
       ELSE /\ task' = [task EXCEPT ![p] =
                  [@ EXCEPT !.cu = "off", !.cuArg = NoConfig, !.fired = @ + 1]]
            /\ UNCHANGED lastDone
    /\ UNCHANGED <<legacyVars, mcpVars, pureVars>>
    /\ UNCHANGED <<sentryClient, clickUpClient, clickUpConfig, issuesByProject,
                   isEnabled, issueTaskMap, lastPass, created, calls>>

\* createClickUpTask(issueId, ...), up to the request to the board; it throws
\* before the request when the board is not configured or no list is selected
CreateClickUpTask(p, i) ==
    /\ FreeSlot(p)
    /\ IF CreateCheck = "ok"
       THEN /\ task' = [task EXCEPT ![p] =
                  [IdleTask EXCEPT !.pc = "createTask", !.op = "createClickUpTask",
                                   !.arg = i]]
            /\ UNCHANGED lastDone
       ELSE /\ lastDone' = [op |-> "createClickUpTask", ret |-> CreateCheck, fired |-> 0]
            /\ UNCHANGED task
    /\ UNCHANGED <<legacyVars, mcpVars, pureVars>>
    /\ UNCHANGED <<sentryClient, clickUpClient, clickUpConfig, issuesByProject,
                   lists, selectedListId, isEnabled, issueTaskMap, lastPass, created>>

\* createClickUpTask resumes with the board's answer: the new task's URL,
\* which createTask and then setTaskMapping record, or an error, which it
\* lets through to its caller
CreateTaskReturn(p) ==
    /\ task[p].pc = "createTask"
    /\ \E r \in {Fail} \cup Urls :
         IF r = Fail
         THEN /\ lastDone' = Returned(task[p], "TransportError", task[p].fired)
              /\ UNCHANGED <<issueTaskMap, created>>
         ELSE /\ lastDone' = Returned(task[p], "ok", task[p].fired)
              /\ issueTaskMap' =
                    Recorded(Recorded(issueTaskMap, task[p].arg, r), task[p].arg, r)
              /\ created' = created \cup {task[p].arg}
    /\ task' = [task EXCEPT ![p] = IdleTask]
    /\ UNCHANGED <<legacyVars, mcpVars, pureVars>>
    /\ UNCHANGED <<sentryClient, clickUpClient, clickUpConfig, issuesByProject,
                   lists, selectedListId, isEnabled, lastPass, calls>>

\* The tracker side: the board is not configured, the project list changes
\* from one initialize to the next, comment threads hold no URL or one.
TrackerNext ==
    \E p \in Tasks :
        \/ \E sc \in SlugLists : Initialize(p, sc, NoConfig)
        \/ RefreshSentry(p)
        \/ RefreshAll(p)
        \/ FetchProject(p)
        \/ CorrelateIssue(p, {"none", "u1"})

TrackerSpec == Init /\ [][TrackerNext]_vars

\* Overlapping refreshes, with a log of the order the fetchAllIssues passes
\* were started in. started[p]: the number of the call in slot p (the n-th
\* call made); latest: of the passes that have handed their map to the
\* store, the one started last, and that map.
NoPasses == [fn |-> "passes", started |-> [p \in Tasks |-> 0],
             latest |-> [n |-> 0, result |-> EmptyMap]]
Passes == IF call.fn = "passes" THEN call ELSE NoPasses

PassStarted(p) ==
    /\ call' = [Passes EXCEPT !.started[p] =
                   IF task'[p].pc = "fetch" THEN calls' ELSE @]
    /\ UNCHANGED result

OverlapInitialize(p, sc) ==
    /\ InitializeCalled(p, sc, NoConfig, clickUpClient)
    /\ PassStarted(p)
    /\ UNCHANGED mcpVars

OverlapRefreshSentry(p) == RefreshSentryCalled(p) /\ PassStarted(p)

OverlapFetchProject(p) ==
    /\ FetchedProject(p)
    /\ call' = IF Len(task[p].todo) = 1 /\ Passes.started[p] > Passes.latest.n
               THEN [Passes EXCEPT !.latest = [n |-> Passes.started[p],
                                               result |-> issuesByProject']]
               ELSE Passes
    /\ UNCHANGED result

OverlapNext ==
    \E p \in Tasks :
        \/ \E sc \in SlugLists : OverlapInitialize(p, sc)
        \/ OverlapRefreshSentry(p)
        \/ OverlapFetchProject(p)
        \/ CorrelateIssue(p, {"none"})

OverlapSpec == Init /\ [][OverlapNext]_vars

\* The correlation loop over two projects, one call after the other, the
\* comment requests failing or not.
CorrelationNext ==
    \/ \E sc \in SlugLists : Initialize(1, sc, NoConfig)
    \/ RefreshSentry(1)
    \/ FetchProject(1)
    \/ \E r \in CommentResponses : LoggedVisit(1, r)

CorrelationSpec == Init /\ [][CorrelationNext]_vars

\* The board side: one project, the board settings change from one
\* initialize to the next.
BoardNext ==
    \E p \in Tasks :
        \/ \E cc \in ClickUpConfigs \cup {NoConfig} : Initialize(p, <<"g1">>, cc)
        \/ RefreshSentry(p)
        \/ RefreshAll(p)
        \/ FetchProject(p)
        \/ CorrelateIssue(p, CommentResponses)
        \/ GetListsReturn(p)
        \/ \E i \in IssuesOf("g1") : CreateClickUpTask(p, i)
        \/ CreateTaskReturn(p)

BoardSpec == Init /\ [][BoardNext]_vars

\* ====================================================================
\* SentryWebViewProvider: the handlers of the view's resolveIssue and
\* createClickUpTask messages
\* ====================================================================
\* call holds the handler that is running: the issue of its message, the two
\* mappings as they were when the message arrived (history) and the await
\* it is suspended at; result holds the last notification it has shown
Mappings == [issuesByProject |-> issuesByProject, issueTaskMap |-> issueTaskMap]
Handling(fn, i, pc) == [fn |-> fn, issue |-> i, before |-> Mappings, pc |-> pc]
Shown(kind, message) == [notification |-> kind, message |-> message]

\* createClickUpTask(issueId, ...) of the view, up to the request
\* storeManager.createClickUpTask sends to the board; what that one throws
\* before the request is caught and shown
WebviewCreateClickUpTask(i) ==
    /\ call = NotApplied
    /\ \A p \in Tasks : task[p].pc = "idle"
    /\ IF CreateCheck = "ok"
       THEN /\ call' = Handling("webview.createClickUpTask", i, "createTask")
            /\ result' = Shown("none", "none")
       ELSE /\ call' = Handling("webview.createClickUpTask", i, "failed")
            /\ result' = Shown("error", CreateCheck)
    /\ UNCHANGED <<managerVars, legacyVars, mcpVars>>

\* the board answers: createTask and setTaskMapping record the URL and the
\* handler goes on to sentryClient.addIssueComment; an error is shown
WebviewCreateTaskReturn ==
    /\ call.fn = "webview.createClickUpTask"
    /\ call.pc = "createTask"
    /\ \E r \in {Fail} \cup Urls :
         IF r = Fail
         THEN /\ call' = [call EXCEPT !.pc = "failed"]
              /\ result' = Shown("error", "TransportError")
              /\ UNCHANGED <<issueTaskMap, created>>
         ELSE /\ call' = [call EXCEPT !.pc = "addIssueComment"]
              /\ issueTaskMap' =
                    Recorded(Recorded(issueTaskMap, call.issue, r), call.issue, r)
              /\ created' = created \cup {call.issue}
              /\ UNCHANGED result
    /\ UNCHANGED <<legacyVars, mcpVars>>
    /\ UNCHANGED <<sentryClient, clickUpClient, clickUpConfig, issuesByProject,
                   lists, selectedListId, isEnabled, task, lastDone, lastPass,
                   calls>>

\* the tracker answers the comment (without a SentryClient none is sent):
\* the success message is shown and refreshSentry called; an error is shown
WebviewCommentReturn(ok) ==
    /\ call.fn = "webview.createClickUpTask"
    /\ call.pc = "addIssueComment"
    /\ IF sentryClient # NoClient /\ ~ok
       THEN /\ call' = [call EXCEPT !.pc = "failed"]
            /\ result' = Shown("error", "Sentry API error")
            /\ UNCHANGED <<managerVars, legacyVars, mcpVars>>
       ELSE /\ call' = [call EXCEPT !.pc = "refreshSentry"]
            /\ result' = Shown("info", "ClickUp task created successfully!")
            /\ \E p \in Tasks : RefreshSentryCalled(p)

\* resolveIssue(issueId) of the view, up to the request of
\* sentryClient.resolveIssue; without a SentryClient it warns and returns
WebviewResolveIssue(i) ==
    /\ call = NotApplied
    /\ \A p \in Tasks : task[p].pc = "idle"
    /\ IF sentryClient = NoClient
       THEN /\ call' = Handling("webview.resolveIssue", i, "failed")
            /\ result' = Shown("warning", "Sentry is not configured")
       ELSE /\ call' = Handling("webview.resolveIssue", i, "resolveIssue")
            /\ result' = Shown("none", "none")
    /\ UNCHANGED <<managerVars, legacyVars, mcpVars>>

\* the tracker answers the status update: the success message is shown and
\* refreshSentry called; an error is shown
WebviewResolveReturn(ok) ==
    /\ call.fn = "webview.resolveIssue"
    /\ call.pc = "resolveIssue"
    /\ IF ~ok
       THEN /\ call' = [call EXCEPT !.pc = "failed"]
            /\ result' = Shown("error", "Sentry API error")
            /\ UNCHANGED <<managerVars, legacyVars, mcpVars>>
       ELSE /\ call' = [call EXCEPT !.pc = "refreshSentry"]
            /\ result' = Shown("info", "Issue resolved in next release")
            /\ \E p \in Tasks : RefreshSentryCalled(p)

\* refreshSentry has returned: this.refresh() posts the state to the view
WebviewRefreshed ==
    /\ call.fn \in {"webview.createClickUpTask", "webview.resolveIssue"}
    /\ call.pc = "refreshSentry"
    /\ \A p \in Tasks : task[p].pc = "idle"
    /\ call' = [call EXCEPT !.pc = "done"]
    /\ UNCHANGED <<result, managerVars, legacyVars, mcpVars>>

\* The view: the extension is initialized, then one message of the view is
\* handled while no other call of the StoreManager is in flight.
WebviewNext ==
    \/ /\ call = NotApplied
       /\ \E cc \in ClickUpConfigs \cup {NoConfig} : Initialize(1, <<"g1">>, cc)
    \/ \E p \in Tasks : FetchProject(p)
    \/ \E p \in Tasks : CorrelateIssue(p, CommentResponses)
    \/ \E p \in Tasks : GetListsReturn(p)
    \/ \E i \in IssuesOf("g1") : WebviewCreateClickUpTask(i)
    \/ WebviewCreateTaskReturn
    \/ \E ok \in BOOLEAN : WebviewCommentReturn(ok)
    \/ \E i \in IssuesOf("g1") : WebviewResolveIssue(i)
    \/ \E ok \in BOOLEAN : WebviewResolveReturn(ok)
    \/ WebviewRefreshed

WebviewSpec == Init /\ [][WebviewNext]_vars

\* ====================================================================
\* IssueStore (src/src/mcp/mcp-entry.ts, second unit)
\* ====================================================================
\* updateClient(client)
UpdateClient(c) ==
    /\ issueStore' = [issueStore EXCEPT !.sentryClient = c]
    /\ UNCHANGED <<storeCall, webviewProvider, mcpVars, managerVars, pureVars>>

\* refresh(), from the call to its first await or to its return
Refresh ==
    /\ IF issueStore.sentryClient = NoClient
         THEN /\ issueStore' = [issueStore EXCEPT !.issuesByProject = EmptyMap]
              /\ UNCHANGED storeCall
         ELSE IF issueStore.isRefreshing
         THEN /\ storeCall' = [storeCall EXCEPT !.coalesced =
                     [any |-> TRUE, got |-> issueStore.issuesByProject]]
              /\ UNCHANGED issueStore
         ELSE /\ issueStore' = [issueStore EXCEPT !.isRefreshing = TRUE]
              /\ storeCall' = [IdleStoreCall EXCEPT !.pc = "fetch",
                                                   !.todo = issueStore.sentryClient]
    /\ UNCHANGED <<webviewProvider, mcpVars, managerVars, pureVars>>

\* refresh(), resumed by one answer of fetchProjectIssues; after the last
\* one the result is stored and saveToCache sends its snapshot
RefreshFetched ==
    /\ storeCall.pc = "fetch"
    /\ \E r \in FetchResponses(Head(storeCall.todo)) :
         LET m == AfterFetch(storeCall.fetched, Head(storeCall.todo), r) IN
         IF Tail(storeCall.todo) # <<>>
         THEN /\ storeCall' = [storeCall EXCEPT !.todo = Tail(@), !.fetched = m]
              /\ UNCHANGED issueStore
         ELSE /\ storeCall' = [storeCall EXCEPT !.pc = "save", !.todo = <<>>,
                                                !.fetched = EmptyMap, !.result = m]
              /\ issueStore' = [issueStore EXCEPT !.issuesByProject = m]
    /\ UNCHANGED <<webviewProvider, mcpVars, managerVars, pureVars>>

\* isRefreshing as refresh() leaves it: the assignment is in the finally
\* block, so it runs whether the try block ended normally or not
IsRefreshingAtEnd_NoFinally(saved) == ~saved
IsRefreshingAtEnd(saved) == FALSE

\* refresh(), resumed by the end of workspaceState.update (saved or thrown
\* and swallowed): fire, return, finally isRefreshing = false
SaveToCacheReturn(saved) ==
    /\ storeCall.pc = "save"
    /\ issueStore' = [issueStore EXCEPT
           !.isRefreshing = IsRefreshingAtEnd(saved),
           !.cached = IF saved THEN [present |-> TRUE, data |-> storeCall.result]
                      ELSE @]
    /\ storeCall' = IdleStoreCall
    /\ UNCHANGED <<webviewProvider, mcpVars, managerVars, pureVars>>

IssueStoreNext ==
    \/ \E c \in SlugLists \cup {NoClient} : UpdateClient(c)
    \/ Refresh
    \/ RefreshFetched
    \/ \E saved \in BOOLEAN : SaveToCacheReturn(saved)

IssueStoreSpec == Init /\ [][IssueStoreNext]_vars

\* Every request of fetchAllIssues ends (the client's requests carry a
\* 10 s timeout) and so does the write of the workspace state.
FairIssueStoreSpec ==
    /\ IssueStoreSpec
    /\ WF_vars(RefreshFetched)
    /\ WF_vars(\E saved \in BOOLEAN : SaveToCacheReturn(saved))

\* ====================================================================
\* SentryWebViewProvider and initializeSentry (the single-file extension)
\* ====================================================================
\* initializeSentry() with complete settings: the client is made or gets the
\* new config, the provider and its interval timer are made once
InitializeSentry(sc) ==
    /\ webviewProvider' = [webviewProvider EXCEPT !.made = TRUE,
                                                  !.sentryClient = sc]
    /\ UNCHANGED <<issueStore, storeCall, mcpVars, managerVars, pureVars>>

\* loadIssues(background), called by the interval timer (background) or by
\* the command sentryAutoFix.refreshIssues, up to its first await: isLoading
\* is set, the view is told, fetchAllIssues starts over the client's slugs
LoadIssues(t) ==
    /\ webviewProvider.made
    /\ webviewProvider.loads[t].pc = "idle"
    /\ webviewProvider' = [webviewProvider EXCEPT
           !.isLoading = TRUE,
           !.shown = IF t = "command" THEN webviewProvider.issuesByProject ELSE @,
           !.loads[t] = [pc |-> "fetch", todo |-> webviewProvider.sentryClient,
                         fetched |-> EmptyMap]]
    /\ UNCHANGED <<issueStore, storeCall, mcpVars, managerVars, pureVars>>

\* loadIssues, resumed by one answer of fetchProjectIssues; after the last
\* one the result is stored and saveToCache sends its snapshot
LoadIssuesFetched(t) ==
    /\ webviewProvider.loads[t].pc = "fetch"
    /\ LET load == webviewProvider.loads[t] IN
       \E r \in FetchResponses(Head(load.todo)) :
         LET m == AfterFetch(load.fetched, Head(load.todo), r) IN
         IF Tail(load.todo) # <<>>
         THEN webviewProvider' = [webviewProvider EXCEPT
                  !.loads[t] = [load EXCEPT !.todo = Tail(@), !.fetched = m]]
         ELSE webviewProvider' = [webviewProvider EXCEPT
                  !.issuesByProject = m,
                  !.loads[t] = [pc |-> "save", todo |-> <<>>, fetched |-> EmptyMap]]
    /\ UNCHANGED <<issueStore, storeCall, mcpVars, managerVars, pureVars>>

\* loadIssues, resumed by the end of saveToCache (which swallows a failed
\* write): isLoading = false, refresh() posts the issues to the view
LoadIssuesSaved(t) ==
    /\ webviewProvider.loads[t].pc = "save"
    /\ webviewProvider' = [webviewProvider EXCEPT
           !.isLoading = FALSE,
           !.shown = webviewProvider.issuesByProject,
           !.loads[t] = IdleLoad]
    /\ UNCHANGED <<issueStore, storeCall, mcpVars, managerVars, pureVars>>

\* The single-file extension: the settings are complete, the timer ticks and
\* the user runs the refresh command.
LegacyNext ==
    \/ \E sc \in SlugLists : InitializeSentry(sc)
    \/ \E t \in Triggers : LoadIssues(t)
    \/ \E t \in Triggers : LoadIssuesFetched(t)
    \/ \E t \in Triggers : LoadIssuesSaved(t)

LegacySpec == Init /\ [][LegacyNext]_vars

\* ====================================================================
\* Text, and the search of SentryMCPServer.searchIssues
\* ====================================================================
\* a string is the sequence of its characters
Lower(c) == CASE c = "A" -> "a" [] c = "B" -> "b" [] c = "T" -> "t"
              [] c = "W" -> "w" [] OTHER -> c
ToLowerCase(str) == [k \in DOMAIN str |-> Lower(str[k])]
Includes(str, t) ==
    \E k \in 0..(Len(str) - Len(t)) : SubSeq(str, k + 1, k + Len(t)) = t

\* a property of the argument object that may be missing
NoTerm == [has |-> FALSE, v |-> <<>>]
NoProject == [has |-> FALSE, v |-> ""]
NoLimit == [has |-> FALSE, v |-> 0]
Given(v) == [has |-> TRUE, v |-> v]

MaxIssues == 26        \* issues of the largest group the tracker answers with
DefaultLimit == 25

\* the issues of the tracker as the search sees them: title, shortId and
\* culprit (which an issue may lack)
IssueId(k) == "i" \o ToString(k)
Title(i) == CASE i = "i1" -> <<"A", "t">> [] i = "i2" -> <<"b">> [] OTHER -> <<"x">>
ShortIdOf(i) == CASE i = "i1" -> <<"W", "1">> [] i = "i2" -> <<"W", "2">>
                  [] OTHER -> <<"W">>
Culprit(i) == IF i = "i2" THEN NoTerm ELSE Given(<<"c">>)

\* the maps fetchAllIssues may return for the projects g1, g2
BigGroup == [k \in 1..MaxIssues |-> IssueId(k)]
SearchMaps ==
    {<<[project |-> "g1", issues |-> a], [project |-> "g2", issues |-> b]>> :
        a \in {<<>>, <<"i1">>, <<"i1", "i2">>, <<"i2", "i1">>, BigGroup},
        b \in {<<>>, <<"i3">>}}

SearchTerms == {NoTerm} \cup {Given(t) : t \in {<<>>, <<"a">>, <<"T">>, <<"w">>, <<"z">>}}
ProjectFilters == {NoProject} \cup {Given(g) : g \in {"", "g1", "g2"}}
Limits == {NoLimit} \cup {Given(n) : n \in {0, 1, 2, 25, 30}}
SearchArguments == [search : SearchTerms, project : ProjectFilters, limit : Limits]

\* args.search?.toLowerCase() || ""
SearchTerm_Stringified(args) ==
    IF args.search.has THEN ToLowerCase(args.search.v) ELSE <<"u">>
SearchTerm(args) == IF args.search.has THEN ToLowerCase(args.search.v) ELSE <<>>
\* args.limit || 25
Limit(args) == IF args.limit.has /\ args.limit.v # 0 THEN args.limit.v ELSE DefaultLimit

\* the test of the inner loop: no term, or the term is in the title, the
\* shortId or the culprit
Matches(i, term) ==
    \/ term = <<>>
    \/ Includes(ToLowerCase(Title(i)), term)
    \/ Includes(ToLowerCase(ShortIdOf(i)), term)
    \/ Culprit(i).has /\ Includes(ToLowerCase(Culprit(i).v), term)

\* the two loops: the entries of the projects the filter lets through, in
\* map order, then upstream order
RECURSIVE Kept(_, _, _)
Kept(project, issues, term) ==
    IF issues = <<>> THEN <<>>
    ELSE (IF Matches(Head(issues), term)
          THEN <<[project |-> project, issue |-> Head(issues)]>> ELSE <<>>)
         \o Kept(project, Tail(issues), term)

RECURSIVE Collected(_, _)
Collected(args, m) ==
    IF m = <<>> THEN <<>>
    ELSE (IF args.project.has /\ args.project.v # "" /\ Head(m).project # args.project.v
          THEN <<>>
          ELSE Kept(Head(m).project, Head(m).issues, SearchTerm(args)))
         \o Collected(args, Tail(m))

\* Array.prototype.slice(0, n)
Slice(seq, n) ==
    IF n >= 0 THEN SubSeq(seq, 1, IF n < Len(seq) THEN n ELSE Len(seq))
    ELSE SubSeq(seq, 1, IF Len(seq) + n > 0 THEN Len(seq) + n ELSE 0)

\* searchIssues: the entries its text lists
SearchIssues(args, m) == Slice(Collected(args, m), Limit(args))

\* one application of searchIssues (it keeps no state: a behaviour applies
\* it once)
SearchIssuesCall(args, m) ==
    /\ call = NotApplied
    /\ call' = [fn |-> "searchIssues", args |-> args, map |-> m]
    /\ result' = [entries |-> SearchIssues(args, m)]
    /\ UNCHANGED <<managerVars, legacyVars, mcpVars>>

\* ====================================================================
\* The issue list of the view (IssueList.tsx, and the legacy webview script)
\* ====================================================================
MaxSorted == 3          \* issues in the list handed to the view

\* count, lastSeen and firstSeen of an issue, as the tracker sends them
\* (text), and what parseInt and Date.getTime make of the text
CountText(i) == CASE i = "i1" -> <<"5">> [] i = "i2" -> <<"5">>
                  [] i = "i3" -> <<"1", "0">> [] OTHER -> <<"7">>
LastSeenText(i) == CASE i = "i1" -> "2024-01-02T00:00:00Z"
                     [] i = "i2" -> "2024-01-01T00:00:00Z"
                     [] i = "i3" -> "2024-01-02T01:00:00+01:00"
                     [] OTHER -> "2024-01-03T00:00:00Z"
FirstSeenText(i) == CASE i = "i1" -> "2024-01-01T00:00:00Z"
                      [] i = "i3" -> "2024-01-02T00:00:00Z"
                      [] OTHER -> "2024-01-01T00:00:00Z"

Digit(c) == CASE c = "0" -> 0 [] c = "1" -> 1 [] c = "5" -> 5 [] c = "7" -> 7
RECURSIVE ParseInt(_)
ParseInt(str) ==
    IF str = <<>> THEN 0 ELSE 10 * ParseInt(SubSeq(str, 1, Len(str) - 1)) + Digit(str[Len(str)])
\* days since 2024-01-01T00:00Z, in hours
GetTime(text) == CASE text = "2024-01-01T00:00:00Z" -> 0
                   [] text = "2024-01-02T00:00:00Z" -> 24
                   [] text = "2024-01-02T01:00:00+01:00" -> 24
                   [] text = "2024-01-03T00:00:00Z" -> 48

SortKeys == {"lastSeen", "firstSeen", "count"}
KeyOf(i, sortBy) ==
    CASE sortBy = "count" -> ParseInt(CountText(i))
      [] sortBy = "lastSeen" -> GetTime(LastSeenText(i))
      [] sortBy = "firstSeen" -> GetTime(FirstSeenText(i))

\* the comparator handed to sort: (a, b) => key(b) - key(a)
Compare(a, b, sortBy) == KeyOf(b, sortBy) - KeyOf(a, sortBy)

\* Array.prototype.sort (a stable sort): x, coming after the elements of
\* sorted in the input, goes before the first one the comparator puts after it
MovesBefore_OnTie(x, e, sortBy) == Compare(e, x, sortBy) >= 0
MovesBefore(x, e, sortBy) == Compare(e, x, sortBy) > 0

RECURSIVE Inserted(_, _, _)
Inserted(sorted, x, sortBy) ==
    IF sorted = <<>> THEN <<x>>
    ELSE IF MovesBefore(x, Head(sorted), sortBy) THEN <<x>> \o sorted
    ELSE <<Head(sorted)>> \o Inserted(Tail(sorted), x, sortBy)

RECURSIVE Sorted(_, _)
Sorted(issues, sortBy) ==
    IF issues = <<>> THEN <<>>
    ELSE Inserted(Sorted(SubSeq(issues, 1, Len(issues) - 1), sortBy),
                  issues[Len(issues)], sortBy)

\* sortIssues: a sorted copy, or the copy as it is for any other sortBy
SortIssues(issues, sortBy) ==
    IF sortBy \in SortKeys THEN Sorted(issues, sortBy) ELSE issues

\* the filter of filterAndSortIssues
ViewMatches(i, term) ==
    \/ Includes(ToLowerCase(Title(i)), term)
    \/ Includes(ToLowerCase(ShortIdOf(i)), term)
    \/ Culprit(i).has /\ Includes(ToLowerCase(Culprit(i).v), term)

RECURSIVE Filtered(_, _)
Filtered(issues, term) ==
    IF issues = <<>> THEN <<>>
    ELSE (IF ViewMatches(Head(issues), term) THEN <<Head(issues)>> ELSE <<>>)
         \o Filtered(Tail(issues), term)

FilterAndSortIssues(issues, searchTerm, sortBy) ==
    SortIssues(IF searchTerm # <<>> THEN Filtered(issues, ToLowerCase(searchTerm))
               ELSE issues, sortBy)

\* the lists handed to the view: issues of one project, each once
ViewIssueIds == {"i1", "i2", "i3", "i4"}
ViewLists ==
    {l \in UNION {[1..n -> ViewIssueIds] : n \in 0..MaxSorted} :
        \A p, q \in DOMAIN l : p # q => l[p] # l[q]}
ViewTerms == {<<>>, <<"a">>, <<"T">>, <<"w">>, <<"z">>}

\* one rendering of a project's issues by the view
FilterAndSortCall(issues, searchTerm, sortBy) ==
    /\ call = NotApplied
    /\ call' = [fn |-> "filterAndSortIssues", issues |-> issues,
                term |-> searchTerm, sortBy |-> sortBy]
    /\ result' = [entries |-> FilterAndSortIssues(issues, searchTerm, sortBy)]
    /\ UNCHANGED <<managerVars, legacyVars, mcpVars>>

\* one rendering by the legacy webview script (sortIssues alone)
SortIssuesCall(issues, sortBy) ==
    /\ call = NotApplied
    /\ call' = [fn |-> "sortIssues", issues |-> issues, term |-> <<>>,
                sortBy |-> sortBy]
    /\ result' = [entries |-> SortIssues(issues, sortBy)]
    /\ UNCHANGED <<managerVars, legacyVars, mcpVars>>

ViewNext ==
    \/ \E l \in ViewLists, t \in ViewTerms, by \in SortKeys : FilterAndSortCall(l, t, by)
    \/ \E l \in ViewLists, by \in SortKeys \cup {"level"} : SortIssuesCall(l, by)

ViewSpec == Init /\ [][ViewNext]_vars

\* the stats memo of App, for one project of the snapshot. shown: whether
\* the project passes the project filter. The memo filters into a new array
\* when there is a search term and then calls sort on the array it holds,
\* which is projectData.issues itself when there is no term.
RECURSIVE TotalEvents(_)
TotalEvents(issues) ==
    IF issues = <<>> THEN 0
    ELSE ParseInt(CountText(Head(issues))) + TotalEvents(Tail(issues))

StatsIssues(issues, searchTerm, sortBy) ==
    Sorted(IF searchTerm # <<>> THEN Filtered(issues, ToLowerCase(searchTerm))
           ELSE issues, sortBy)

Stats(issues, shown, searchTerm, sortBy) ==
    IF shown
    THEN [totalIssues |-> Len(StatsIssues(issues, searchTerm, sortBy)),
          totalEvents |-> TotalEvents(StatsIssues(issues, searchTerm, sortBy))]
    ELSE [totalIssues |-> 0, totalEvents |-> 0]

\* projectData.issues of the snapshot after the memo has run
AfterStats(issues, shown, searchTerm, sortBy) ==
    IF shown /\ searchTerm = <<>> THEN Sorted(issues, sortBy) ELSE issues

\* one recomputation by App: the stats memo, then the rendering of the
\* project's issues by IssueList over the array the snapshot holds by then
AppRender(issues, shown, searchTerm, sortBy) ==
    /\ call = NotApplied
    /\ call' = [fn |-> "App", issues |-> issues, term |-> searchTerm,
                sortBy |-> sortBy, shown |-> shown]
    /\ result' = [entries |-> FilterAndSortIssues(
                                AfterStats(issues, shown, searchTerm, sortBy),
                                searchTerm, sortBy),
                  stats |-> Stats(issues, shown, searchTerm, sortBy),
                  snapshot |-> AfterStats(issues, shown, searchTerm, sortBy)]
    /\ UNCHANGED <<managerVars, legacyVars, mcpVars>>

RecomputeNext ==
    \E l \in ViewLists, shown \in BOOLEAN, t \in ViewTerms, by \in SortKeys :
        AppRender(l, shown, t, by)

RecomputeSpec == Init /\ [][RecomputeNext]_vars

\* the search of the protocol adapter and the search of the view
SearchNext ==
    \/ \E args \in SearchArguments, m \in SearchMaps : SearchIssuesCall(args, m)
    \/ \E l \in ViewLists, t \in ViewTerms, by \in SortKeys : FilterAndSortCall(l, t, by)

SearchSpec == Init /\ [][SearchNext]_vars

\* ====================================================================
\* SentryMCPServer (src/src/mcp/server.ts)
\* ====================================================================
\* the tool catalogue of ListTools, and a name outside it
ToolNames ==
    {"sentry_search_issues", "sentry_get_issue_details", "sentry_list_projects",
     "sentry_resolve_issue", "clickup_add_comment", "clickup_set_status"}
BoardTools == {"clickup_add_comment", "clickup_set_status"}
RequestNames == ToolNames \cup {"bogus_tool"}

\* request.params.arguments: missing, or an object. id: its issueId or taskId;
\* text: its search, comment or statusName (Null: the property is absent)
NoArgs == [given |-> FALSE, id |-> Null, text |-> Null]
ArgObjects == [given : {TRUE}, id : {Null, "i1", "zz"}, text : {Null, "t"}]
Arguments == {NoArgs} \cup ArgObjects

\* the search, project and limit of an argument object that has a text
SearchArgs(args) ==
    [search |-> IF args.text = Null THEN NoTerm ELSE Given(<<args.text>>),
     project |-> NoProject, limit |-> NoLimit]

\* what a handler ended with: thrown is "none" when it returned its text
\* mutations: the status updates sent to the tracker; lines: the lines of
\* the stack trace section of the text
Answers(text, reqs) ==
    [thrown |-> "none", text |-> text, requests |-> reqs, mutations |-> <<>>,
     lines |-> <<>>]
Throws(err, reqs) ==
    [thrown |-> err, text |-> "none", requests |-> reqs, mutations |-> <<>>,
     lines |-> <<>>]

\* the board client a board tool works with: the one held, or one made on
\* the spot from storeManager.getClickUpConfig()
LazyClient(srv) ==
    srv.clickUpClient \/ (srv.storeManager /\ clickUpConfig.present)

\* the issue the find() of getIssueDetails and resolveIssue comes up with in
\* the map fetchAllIssues returned
RECURSIVE Joined(_)
Joined(chars) == IF chars = <<>> THEN "" ELSE Head(chars) \o Joined(Tail(chars))

FindIssue_ByIdOnly(m, ident) ==
    LET all == AllValues(m)
        hits == {k \in DOMAIN all : all[k] = ident}
    IN IF hits = {} THEN [found |-> FALSE, issue |-> NoIssue]
       ELSE [found |-> TRUE, issue |-> all[CHOOSE k \in hits : \A h \in hits : k <= h]]
FindIssue(m, ident) ==
    LET all == AllValues(m)
        hits == {k \in DOMAIN all :
                    all[k] = ident \/ Joined(ShortIdOf(all[k])) = ident}
    IN IF hits = {} THEN [found |-> FALSE, issue |-> NoIssue]
       ELSE [found |-> TRUE, issue |-> all[CHOOSE k \in hits : \A h \in hits : k <= h]]

Found(m, id) == FindIssue(m, id).found

\* SentryClient.resolveIssue(issueId): the PUT it sends
ResolveRequest(id) == [issue |-> id, status |-> "resolvedInNextRelease"]

\* resolveIssue(args); m: what fetchAllIssues returned, sent: whether the PUT
\* went through
ResolveIssue(args, m, sent) ==
    IF ~args.given THEN Throws("TypeError", {})
    ELSE IF args.id = Null THEN Throws("issueId is required", {})
    ELSE LET f == FindIssue(m, args.id) IN
         IF ~f.found THEN Throws("Issue not found", {"fetch"})
         ELSE [(IF sent THEN Answers("resolved", {"fetch", "resolve"})
                ELSE Throws("Sentry API error", {"fetch", "resolve"}))
               EXCEPT !.mutations = <<ResolveRequest(f.issue)>>]

\* the latest event of an issue: null (fetchLatestEvent failed), or its
\* exception entry (entry: whether it has one with values), whose values are
\* exceptions [type, frames] with frames possibly missing
NoEvent == [has |-> FALSE, entry |-> FALSE, values |-> <<>>]
NoFrames == [has |-> FALSE, v |-> <<>>]

MaxExceptions == 2      \* exceptions in the chain of an event
FrameLists == {NoFrames} \cup {Given(f) : f \in {<<"outer", "middle", "inner">>,
                                                 <<"outer", "inner">>, <<"inner">>}}
ExceptionValues == [type : {"E1", "E2"}, frames : FrameLists]
Events ==
    {NoEvent, [has |-> TRUE, entry |-> FALSE, values |-> <<>>]}
    \cup {[has |-> TRUE, entry |-> TRUE, values |-> v] :
            v \in UNION {[1..n -> ExceptionValues] : n \in 0..MaxExceptions}}

\* Array.prototype.reverse
Reverse_Kept(seq) == seq
Reverse(seq) == [k \in 1..Len(seq) |-> seq[Len(seq) + 1 - k]]

\* the lines of one exception: its header, then its frames, last one first
ExceptionLines(e) ==
    <<[kind |-> "exception", name |-> e.type]>>
    \o (IF e.frames.has
        THEN [k \in 1..Len(e.frames.v) |->
                 [kind |-> "frame", name |-> Reverse(e.frames.v)[k]]]
        ELSE <<>>)

RECURSIVE LinesOf(_)
LinesOf(exceptions) ==
    IF exceptions = <<>> THEN <<>>
    ELSE ExceptionLines(Head(exceptions)) \o LinesOf(Tail(exceptions))

\* the stack trace section: for (exception of values.reverse()) ...
StackTraceLines(event) ==
    IF event.has /\ event.entry THEN LinesOf(Reverse(event.values)) ELSE <<>>

\* getIssueDetails(args); event: what fetchLatestEvent returned
GetIssueDetails(args, m, event) ==
    IF ~args.given THEN Throws("TypeError", {})
    ELSE IF args.id = Null THEN Throws("issueId is required", {})
    ELSE IF ~Found(m, args.id) THEN Throws("Issue not found", {"fetch"})
    ELSE [Answers("details", {"fetch", "event"})
          EXCEPT !.lines = StackTraceLines(event)]

\* an event with one exception, for the calls that do not vary it
PlainEvent ==
    [has |-> TRUE, entry |-> TRUE,
     values |-> <<[type |-> "E1", frames |-> Given(<<"outer", "inner">>)]>>]

\* searchIssues, getIssueDetails, listProjects, resolveIssue,
\* addClickUpComment, setClickUpStatus and the default branch of the switch.
\* up: the tracker's answer to the fetch; sent: whether the mutation request
\* (resolve, comment, status change) went through
ToolOutcome(name, args, srv, up, sent) ==
    LET m == AfterFetch(EmptyMap, "g1", up) IN
    CASE name = "sentry_search_issues" ->
           IF ~args.given THEN Throws("TypeError", {})
           ELSE Answers(IF SearchIssues(SearchArgs(args), m) = <<>>
                        THEN "No issues found" ELSE "issues", {"fetch"})
      [] name = "sentry_get_issue_details" ->
           GetIssueDetails(args, m, IF sent THEN PlainEvent ELSE NoEvent)
      [] name = "sentry_list_projects" -> Answers("projects", {"fetch"})
      [] name = "sentry_resolve_issue" ->
           ResolveIssue(args, m, sent)
      [] name = "clickup_add_comment" ->
           IF ~args.given THEN Throws("TypeError", {})
           ELSE IF args.id = Null \/ args.text = Null
                THEN Throws("taskId and comment are required", {})
           ELSE IF ~LazyClient(srv) THEN Throws("ClickUp is not configured", {})
           ELSE IF ~sent THEN Throws("ClickUp API error", {"comment"})
           ELSE Answers("comment added", {"comment"})
      [] name = "clickup_set_status" ->
           IF ~args.given THEN Throws("TypeError", {})
           ELSE IF args.id = Null THEN Throws("taskId is required", {})
           ELSE IF ~LazyClient(srv) THEN Throws("ClickUp is not configured", {})
           ELSE IF ~sent THEN Throws("ClickUp API error", {"status"})
           ELSE Answers("status set", {"status"})
      [] OTHER -> Throws("Unknown tool", {})

SuccessTexts ==
    {"No issues found", "issues", "details", "projects", "resolved",
     "comment added", "status set"}
ErrorTexts ==
    {"TypeError", "issueId is required", "Issue not found", "Sentry API error",
     "taskId and comment are required", "taskId is required",
     "ClickUp is not configured", "ClickUp API error", "Unknown tool"}

\* the CallTool handler around the switch: try { return await ... } catch
\* { return { content: [Error: message], isError: true } }
CallToolHandler_NoCatch(name, o) ==
    [tool |-> name, isError |-> FALSE, text |-> o.text,
     raised |-> o.thrown # "none", requests |-> o.requests]
CallToolHandler(name, o) ==
    [tool |-> name, isError |-> o.thrown # "none",
     text |-> IF o.thrown # "none" THEN o.thrown ELSE o.text,
     raised |-> FALSE, requests |-> o.requests]

\* ClickUpClient.updateTaskStatus. Status names are strings of the letters
\* toLowerCase is modelled for: "a" (open), "b" (in progress), "t" (complete);
\* tk is the task of the answer to GET /task/:id
NoStatuses == [has |-> FALSE, v |-> <<>>]
StatusLists ==
    {NoStatuses} \cup {Given(l) : l \in {<<>>, << <<"a">>, <<"b">> >>, << <<"t">> >>}}

\* tk.list of GET /task/:id: missing, or with an id and statuses that may
\* each be missing
NoList == [has |-> FALSE, id |-> FALSE, statuses |-> NoStatuses]
TaskLists == {NoList} \cup [has : {TRUE}, id : BOOLEAN, statuses : StatusLists]

\* tk.status, the task's current status
NoStatus == [has |-> FALSE, v |-> <<>>]
CurrentStatuses == {NoStatus, Given(<<"a">>), Given(<<"t">>)}

\* the answers to GET /task/:id and GET /list/:id (ok: FALSE when the request
\* failed)
FailedTask == [ok |-> FALSE, list |-> NoList, statuses |-> NoStatuses, status |-> NoStatus]
TaskResponses ==
    {FailedTask}
    \cup [ok : {TRUE}, list : TaskLists, statuses : StatusLists, status : CurrentStatuses]
FailedList == [ok |-> FALSE, statuses |-> NoStatuses]
ListStatusResponses == {FailedList} \cup [ok : {TRUE}, statuses : StatusLists]

StatusNamesAsked == {<<"a">>, <<"A">>, <<"t">>, <<"B">>}

\* s.status.toLowerCase() === statusName.toLowerCase()
StatusMatches_Exact(s, statusName) == s = statusName
StatusMatches(s, statusName) == ToLowerCase(s) = ToLowerCase(statusName)

\* "Get available statuses - try multiple sources": v the statuses, fetched
\* whether GET /list/:id was sent
TriedSources(tk, listResponse) ==
    IF tk.list.has /\ tk.list.statuses.has /\ Len(tk.list.statuses.v) > 0
    THEN [v |-> tk.list.statuses.v, fetched |-> FALSE]
    ELSE IF tk.statuses.has /\ Len(tk.statuses.v) > 0
    THEN [v |-> tk.statuses.v, fetched |-> FALSE]
    ELSE IF tk.list.has /\ tk.list.id
    THEN [v |-> IF listResponse.ok /\ listResponse.statuses.has
                THEN listResponse.statuses.v ELSE <<>>,
          fetched |-> TRUE]
    ELSE [v |-> <<>>, fetched |-> FALSE]

\* ... and "Last resort: use current status only"
AvailableStatuses(tk, listResponse) ==
    LET tried == TriedSources(tk, listResponse)
    IN IF Len(tried.v) = 0 /\ tk.status.has THEN <<tk.status.v>> ELSE tried.v

\* updateTaskStatus(taskId, statusName); putOk: whether PUT /task/:id went
\* through. error: what it throws, named: the statuses its message lists,
\* requests: what it sent, put: the payload of the PUT
UpdateTaskStatus(tk, listResponse, statusName, putOk) ==
    IF ~tk.ok
    THEN [error |-> "ClickUp API error", named |-> <<>>,
          requests |-> <<"getTask">>, put |-> NoStatus]
    ELSE LET tried == TriedSources(tk, listResponse)
             available == AvailableStatuses(tk, listResponse)
             gets == <<"getTask">> \o (IF tried.fetched THEN <<"getList">> ELSE <<>>)
         IN IF ~\E k \in DOMAIN available : StatusMatches(available[k], statusName)
            THEN [error |-> "Status not found", named |-> available,
                  requests |-> gets, put |-> NoStatus]
            ELSE [error |-> IF putOk THEN "none" ELSE "ClickUp API error",
                  named |-> <<>>, requests |-> gets \o <<"put">>,
                  put |-> Given(statusName)]

UpdateTaskStatusCall(tk, listResponse, statusName, putOk) ==
    /\ call = NotApplied
    /\ call' = [fn |-> "updateTaskStatus", task |-> tk, list |-> listResponse,
                statusName |-> statusName]
    /\ result' = UpdateTaskStatus(tk, listResponse, statusName, putOk)
    /\ UNCHANGED <<managerVars, legacyVars, mcpVars>>

\* SentryClient.parseClickUpUrlFromComments. A comment text is a sequence of
\* characters in which the literal head of the pattern stands as one element
UrlHead == "https://app.clickup.com/t/"
OtherHead == "http://app.clickup.com/t/"
WordChars == {"a", "b", "c", "1", "2", "3", "-", "_", "S", "e", "f", "o", "r"}

\* text.match(/https:\/\/app\.clickup\.com\/t\/[\w-]+/): the leftmost place
\* where the head is followed by a word character or "-", and from there as
\* many of them as follow
NoMatch == [has |-> FALSE, v |-> <<>>]
RegexMatch_Lazy(text) ==
    LET starts == {k \in 1..(Len(text) - 1) :
                      text[k] = UrlHead /\ text[k + 1] \in WordChars}
    IN IF starts = {} THEN NoMatch
       ELSE LET k == CHOOSE x \in starts : \A y \in starts : x <= y
            IN Given(SubSeq(text, k, k + 1))
RegexMatch(text) ==
    LET starts == {k \in 1..(Len(text) - 1) :
                      text[k] = UrlHead /\ text[k + 1] \in WordChars}
    IN IF starts = {} THEN NoMatch
       ELSE LET k == CHOOSE x \in starts : \A y \in starts : x <= y
                ends == {e \in (k + 1)..Len(text) :
                            \A j \in (k + 1)..e : text[j] \in WordChars}
            IN Given(SubSeq(text, k, CHOOSE e \in ends : \A y \in ends : y <= e))

\* comment.data?.text || comment.text || ""
CommentText(comment) == IF comment.has THEN comment.v ELSE <<>>

\* the loop over the comments: the match of the first comment that has one
RECURSIVE FirstMatch(_)
FirstMatch(comments) ==
    IF comments = <<>> THEN NoMatch
    ELSE LET found == RegexMatch(CommentText(Head(comments)))
         IN IF found.has THEN found ELSE FirstMatch(Tail(comments))

\* getIssueComments: the thread, or [] when the request failed
GetIssueComments(thread, ok) == IF ok THEN thread ELSE <<>>

\* parseClickUpUrlFromComments(issueId): the URL as a string, or null
ParseClickUpUrlFromComments(thread, ok) ==
    LET found == FirstMatch(GetIssueComments(thread, ok))
    IN IF found.has THEN Joined(found.v) ELSE Null

\* the comment texts and threads the correlator is applied to
MaxComments == 2
CommentTexts ==
    { <<>>,
      <<"S", "e", "e", " ", UrlHead, "a", "b", "c", "1", "2", "3", " ",
        "f", "o", "r">>,
      <<"a", "b">>,
      <<UrlHead>>,
      <<UrlHead, " ", "a">>,
      <<OtherHead, "a">>,
      <<UrlHead, "a", "-", "1", "/", "b">>,
      <<"a", UrlHead, "/", UrlHead, "b", "_">>,
      <<UrlHead, "c", " ", UrlHead, "b">> }
CommentsOf == {[has |-> FALSE, v |-> <<>>]} \cup {Given(t) : t \in CommentTexts}
Threads == UNION {[1..n -> CommentsOf] : n \in 0..MaxComments}

\* one visit of the correlation loop of refreshSentry to issue i1, whose
\* entry of the task mapping is `existing`
ParseCommentsCall(existing, thread, ok) ==
    /\ call = NotApplied
    /\ call' = [fn |-> "parseClickUpUrlFromComments", existing |-> existing,
                thread |-> thread, ok |-> ok]
    /\ result' = [url |-> ParseClickUpUrlFromComments(thread, ok),
                  mapping |-> Correlated([i \in {"i1"} |-> existing], "i1",
                                         ParseClickUpUrlFromComments(thread, ok))]
    /\ UNCHANGED <<managerVars, legacyVars, mcpVars>>

\* the argument objects of the two tools that take an issue identifier: an
\* id, a shortId ("W1": of i1, "W": of every issue from i3 on), or neither
IssueArguments ==
    {NoArgs} \cup [given : {TRUE}, id : {Null, "i1", "W1", "W", "i3", "zz"},
                   text : {Null}]

\* what a caller of a tool gets and what went to the tracker
Outcome(name, o) ==
    [payload |-> CallToolHandler(name, o), mutations |-> o.mutations,
     lines |-> o.lines]

\* one sentry_resolve_issue request
ResolveIssueCall(args, m, sent) ==
    /\ call = NotApplied
    /\ call' = [fn |-> "resolveIssue", args |-> args, map |-> m]
    /\ result' = Outcome("sentry_resolve_issue", ResolveIssue(args, m, sent))
    /\ UNCHANGED <<managerVars, legacyVars, mcpVars>>

\* one sentry_get_issue_details request
GetIssueDetailsCall(args, m, event) ==
    /\ call = NotApplied
    /\ call' = [fn |-> "getIssueDetails", args |-> args, map |-> m, event |-> event]
    /\ result' = Outcome("sentry_get_issue_details", GetIssueDetails(args, m, event))
    /\ UNCHANGED <<managerVars, legacyVars, mcpVars>>

\* FixWithAICommand.extractStackTrace(event), its lines without the empty
\* ones that separate the exceptions
ExtractStackTraceCall(event) ==
    /\ call = NotApplied
    /\ event.has
    /\ call' = [fn |-> "extractStackTrace", event |-> event]
    /\ result' = [lines |-> StackTraceLines(event)]
    /\ UNCHANGED <<managerVars, legacyVars, mcpVars>>

\* the maps the issue tools look identifiers up in
LookupMaps == {m \in SearchMaps : Len(AllValues(m)) <= MaxSorted}

ToolsNext ==
    \/ \E args \in IssueArguments, m \in LookupMaps, sent \in BOOLEAN :
          ResolveIssueCall(args, m, sent)
    \/ \E args \in IssueArguments, m \in LookupMaps, event \in Events :
          GetIssueDetailsCall(args, m, event)
    \/ \E event \in Events : ExtractStackTraceCall(event)
    \/ \E tk \in TaskResponses, listResponse \in ListStatusResponses,
          statusName \in StatusNamesAsked, putOk \in BOOLEAN :
          UpdateTaskStatusCall(tk, listResponse, statusName, putOk)
    \/ \E existing \in {Null} \cup Urls, thread \in Threads, ok \in BOOLEAN :
          ParseCommentsCall(existing, thread, ok)

ToolsSpec == Init /\ [][ToolsNext]_vars

\* new SentryMCPServer(config, storeManager); env: CLICKUP_API_TOKEN and
\* CLICKUP_TEAM_ID are set in the process environment
McpConstruct(sm, env) ==
    /\ ~mcpServer.made
    /\ LET shared == sm /\ clickUpConfig.present IN
       mcpServer' = [made |-> TRUE, storeManager |-> sm,
                     clickUpConfig |-> shared \/ env,
                     clickUpClient |-> shared \/ env, env |-> env]
    /\ UNCHANGED <<response, extension, legacyVars, managerVars, pureVars>>

\* updateConfig(config, storeManager); ref: "undefined" (argument left out),
\* "null" or "manager"
\* present: whether the StoreManager's board config is there
UpdatedServerWith(srv, ref, present) ==
    LET sm == IF ref = "undefined" THEN srv.storeManager ELSE ref = "manager"
        cfg == (sm /\ present) \/ srv.clickUpConfig
    IN [srv EXCEPT !.storeManager = sm, !.clickUpClient = cfg]

UpdatedServer(srv, ref) == UpdatedServerWith(srv, ref, clickUpConfig.present)

StoreRefs == {"undefined", "null", "manager"}

McpUpdateConfig(ref) ==
    /\ mcpServer.made
    /\ mcpServer' = UpdatedServer(mcpServer, ref)
    /\ UNCHANGED <<response, extension, legacyVars, managerVars, pureVars>>

\* one CallTool request, from its arrival to its response
CallTool(name, args, up, sent) ==
    /\ mcpServer.made
    /\ response' = CallToolHandler(name, ToolOutcome(name, args, mcpServer, up, sent))
    /\ mcpServer' = IF name \in BoardTools /\ args.given
                     THEN [mcpServer EXCEPT !.clickUpClient = LazyClient(mcpServer)]
                     ELSE mcpServer
    /\ UNCHANGED <<extension, legacyVars, managerVars, pureVars>>

\* ====================================================================
\* initializeStores (activate, and every change of the settings)
\* ====================================================================
\* the tracker settings: sentryUrl, apiToken or projectSlugs missing
\* (NotConfigured), or complete, with the projectSlugs given
NotConfigured == <<>>

\* initializeStores(), with the settings read as sc and cc. Without tracker
\* settings it disposes of the StoreManager and returns. Otherwise it makes a
\* StoreManager if it holds none, calls initialize on it (which runs on to
\* its first request), makes the webviewProvider if there is none, and makes
\* or updates the SentryMCPServer. A new StoreManager is made only while no
\* call of the disposed one is in flight.
InitializeStores(p, sc, cc) ==
    IF sc = NotConfigured
    THEN /\ extension' = [extension EXCEPT
                             !.configured = FALSE,
                             !.storeManager = FALSE,
                             !.disposed = @ \/ extension.storeManager,
                             !.webviewProvider =
                                 IF @ = "current" /\ extension.storeManager
                                 THEN "disposed" ELSE @]
         /\ UNCHANGED <<mcpServer, response, managerVars, legacyVars, pureVars>>
    ELSE /\ extension.storeManager \/ \A q \in Tasks : task[q].pc = "idle"
         /\ InitializeCalled(p, sc, cc,
                             extension.storeManager /\ clickUpClient)
         /\ extension' = [extension EXCEPT
                             !.configured = TRUE,
                             !.storeManager = TRUE,
                             !.webviewProvider =
                                 IF @ = "none" THEN "current" ELSE @]
         /\ mcpServer' =
               IF ~mcpServer.made
               THEN [made |-> TRUE, storeManager |-> TRUE,
                     clickUpConfig |-> cc.present, clickUpClient |-> cc.present,
                     env |-> FALSE]
               ELSE UpdatedServerWith(mcpServer, "manager", cc.present)
         /\ UNCHANGED <<response, pureVars>>

\* The extension as the settings change: complete, then perhaps incomplete.
\* The tools are asked for the projects and for an issue.
SettingsNext ==
    \/ \E sc \in {NotConfigured, <<"g1">>}, cc \in ClickUpConfigs \cup {NoConfig} :
          InitializeStores(1, sc, cc)
    \/ FetchProject(1)
    \/ CorrelateIssue(1, {"none", "u1"})
    \/ GetListsReturn(1)
    \/ \E name \in {"sentry_list_projects", "sentry_get_issue_details"},
          args \in {[given |-> TRUE, id |-> "i1", text |-> Null]},
          up \in FetchResponses("g1") :
            CallTool(name, args, up, TRUE)

SettingsSpec == Init /\ [][SettingsNext]_vars

\* The server inside the extension: the board settings change from one
\* initialize to the next, calls to the StoreManager come one after another.
McpNext ==
    \/ \E cc \in ClickUpConfigs \cup {NoConfig} : Initialize(1, <<"g1">>, cc)
    \/ FetchProject(1)
    \/ CorrelateIssue(1, {"none"})
    \/ GetListsReturn(1)
    \/ \E sm \in BOOLEAN, env \in BOOLEAN : McpConstruct(sm, env)
    \/ \E ref \in StoreRefs : McpUpdateConfig(ref)
    \/ \E name \in RequestNames, args \in Arguments,
          up \in FetchResponses("g1"), sent \in BOOLEAN :
            CallTool(name, args, up, sent)

McpSpec == Init /\ [][McpNext]_vars

TypeOK ==
    /\ sentryClient \in SlugLists \cup {NoClient}
    /\ clickUpClient \in BOOLEAN
    /\ clickUpConfig \in ClickUpConfigs \cup {NoConfig}
    /\ MapKeys(issuesByProject) \subseteq Groups
    /\ selectedListId \in ListIds \cup {Null}
    /\ isEnabled \in BOOLEAN
    /\ issueTaskMap \in [AllIssues -> Urls \cup {Null}]
    /\ \A p \in Tasks :
         /\ task[p].pc \in {"idle", "fetch", "correlate", "join", "createTask"}
         /\ task[p].cu \in {"off", "lists"}
         /\ task[p].fired \in 0..3
    /\ created \subseteq AllIssues
    /\ calls \in 0..MaxCalls
    /\ issueStore.sentryClient \in SlugLists \cup {NoClient}
    /\ issueStore.isRefreshing \in BOOLEAN
    /\ MapKeys(issueStore.issuesByProject) \subseteq Groups
    /\ storeCall.pc \in {"idle", "fetch", "save"}
    /\ mcpServer \in [made : BOOLEAN, storeManager : BOOLEAN,
                       clickUpConfig : BOOLEAN, clickUpClient : BOOLEAN,
                       env : BOOLEAN]
    /\ response.tool \in RequestNames \cup {"none"}
    /\ response.text \in SuccessTexts \cup ErrorTexts \cup {"none"}

\* ====================================================================
\* Properties
\* ====================================================================
Range(f) == {f[k] : k \in DOMAIN f}

InRefreshSentry(p) ==
    task[p].op = "refreshSentry" /\ task[p].pc \in {"fetch", "correlate"}

\* C1 (as claimed): two overlapping refreshSentry calls make one fetch
\* sequence only - no second call is in a fetchAllIssues pass while another
\* refreshSentry call is still in flight.
C1_OneFetchSequence ==
    \A p, q \in Tasks :
        (p # q /\ InRefreshSentry(p) /\ InRefreshSentry(q)) => task[q].pc # "fetch"

\* C2: a refresh call that finds isRefreshing set returns to its caller the
\* mapping produced by the refresh in flight: once that refresh has its
\* result, the value handed to the coalesced call equals it
C2_CoalescedGetsResult ==
    (storeCall.pc = "save" /\ storeCall.coalesced.any)
        => storeCall.coalesced.got = storeCall.result

\* a call of slot p returns in this step
Returns(p) == task[p].pc # "idle" /\ task'[p].pc = "idle"

\* C3 (as claimed): when an initialize returns, the key set of the issue
\* mapping is exactly its list G of projects - the list that initialize was
\* given, which is also the configured list unless a later initialize has
\* replaced it (either of the two is accepted here).
C3_KeySetAfterInitialize ==
    [][\A p \in Tasks :
         (Returns(p) /\ task[p].op = "initialize")
             => \/ MapKeys(issuesByProject') = Range(task[p].slugs)
                \/ MapKeys(issuesByProject') = Range(sentryClient')]_vars

\* the entry a pass must hold for an answer
Expected(a) == IF a.ok THEN a.issues ELSE <<>>

\* C4: the map a fetch pass hands to the store has, for every project of
\* the pass, the empty sequence if its fetch failed and exactly the fetched
\* issues if not; a pass that has met failures is still going on with the
\* projects left; no refresh call returns an error.
C4_FailSoftPerGroup ==
    /\ [k \in DOMAIN lastPass.resp |-> lastPass.resp[k].project] = lastPass.slugs
    /\ Len(lastPass.result) = Len(lastPass.slugs)
    /\ \A k \in DOMAIN lastPass.resp :
         /\ lastPass.result[k].project = lastPass.resp[k].project
         /\ lastPass.result[k].issues = Expected(lastPass.resp[k].answer)
    /\ \A p \in Tasks :
         task[p].pc = "fetch" =>
            /\ [k \in DOMAIN task[p].resp |-> task[p].resp[k].project] \o task[p].todo
                   = task[p].slugs
            /\ \A k \in DOMAIN task[p].resp :
                 MapGet(task[p].fetched, task[p].resp[k].project)
                     = Expected(task[p].resp[k].answer)
    /\ lastDone.op \in {"initialize", "refreshSentry", "refreshAll"} => lastDone.ret = "ok"

\* C4 witness: a pass over two projects has ended in which the first fetch
\* failed and the second brought issues.
C4_Witness ==
    /\ Len(lastPass.resp) = 2
    /\ ~lastPass.resp[1].answer.ok
    /\ lastPass.resp[2].answer.ok
    /\ lastPass.result[2].issues # <<>>
    /\ issuesByProject = lastPass.result

\* C5: no step removes an entry of the task mapping; in particular a
\* correlation visit that finds no URL, or whose comment request fails,
\* leaves the entry of an issue a create has recorded.
C5_ReferenceKept ==
    [][\A i \in AllIssues : issueTaskMap[i] # Null => issueTaskMap'[i] # Null]_vars

\* C5 witness: the correlation loop has visited an issue a create had
\* recorded a URL for, found no URL, and the entry is there.
C5_Witness ==
    \E p \in Tasks :
        /\ task[p].lastScan.created
        /\ task[p].lastScan.answer \in {"none", Fail}
        /\ issueTaskMap[task[p].lastScan.issue] # Null

\* C6 (as claimed): once a create has recorded a URL for an issue, only the
\* return of a createClickUpTask for that issue changes the issue's entry.
C6_OnlyCreateChanges ==
    [][\A i \in created :
         issueTaskMap'[i] # issueTaskMap[i]
             => \E p \in Tasks : /\ task[p].pc = "createTask"
                                 /\ task[p].arg = i
                                 /\ Returns(p)]_vars

\* C7: what a reader of the store finds is at every moment the whole result
\* of the fetch pass that ended last (the empty map before the first): one
\* entry for every project of that pass, never a part of a pass in progress.
C7_NoPartialMapping ==
    /\ issuesByProject = lastPass.result
    /\ MapKeys(issuesByProject) = Range(lastPass.slugs)

\* C7 witness: a pass over two projects is suspended with one entry in its
\* local map, while the store holds the result of an earlier pass.
C7_Witness ==
    \E p \in Tasks :
        /\ task[p].pc = "fetch"
        /\ Len(task[p].fetched) = 1
        /\ Len(task[p].todo) = 1
        /\ lastPass # NoPass
        /\ issuesByProject # task[p].fetched

\* C8 (as claimed): a createClickUpTask that has added a task reference has
\* fired exactly one change event.
C8_CreateFiresOnce ==
    (lastDone.op = "createClickUpTask" /\ lastDone.ret = "ok") => lastDone.fired = 1

\* createClickUpTask is called in this step
CreateCalled ==
    /\ calls' = calls + 1
    /\ \/ lastDone'.op = "createClickUpTask" /\ task' = task
       \/ \E p \in Tasks : task[p].pc = "idle" /\ task'[p].pc = "createTask"

\* C9: without a board config or without a selected list no request to
\* create a task is sent, and a createClickUpTask call returns a
\* not-configured error and leaves the task mapping as it was.
C9_NotConfigured ==
    [][(~clickUpConfig.present \/ selectedListId = Null) =>
         /\ \A p \in Tasks : task'[p].pc = "createTask" => task[p].pc = "createTask"
         /\ CreateCalled =>
              /\ lastDone'.op = "createClickUpTask"
              /\ lastDone'.ret \in {"NotConfigured", "NoListSelected"}
              /\ issueTaskMap' = issueTaskMap]_vars

\* C9 witness: a create was refused for want of a selected list although
\* the board is configured.
C9_Witness ==
    /\ lastDone.op = "createClickUpTask"
    /\ lastDone.ret = "NoListSelected"
    /\ clickUpConfig.present
    /\ \A p \in Tasks : task[p].pc # "createTask"

\* C10: every tool call - any name, any or no argument object, any failure
\* of the tracker or the board - is answered by a success text payload or by
\* a payload with isError set; nothing is raised out of the handler
C10_AlwaysAPayload ==
    response.tool # "none" =>
        /\ ~response.raised
        /\ IF response.isError THEN response.text \in ErrorTexts
           ELSE response.text \in SuccessTexts

\* a board tool whose request to the board failed was answered by an error
\* payload
C10_Witness ==
    /\ response.isError
    /\ response.tool \in BoardTools
    /\ response.text = "ClickUp API error"

\* the board settings a call can get at this moment: from the StoreManager
\* the server refers to, or from the process environment
UsableBoardConfig ==
    (mcpServer.storeManager /\ clickUpConfig.present) \/ mcpServer.env

\* C11: a board tool called with its required arguments while neither the
\* StoreManager nor the environment yields a board config is answered by the
\* "ClickUp is not configured" error payload, and no request goes to the board
C11_NotConfiguredPayload ==
    [][(/\ mcpServer.made
        /\ ~UsableBoardConfig
        /\ response' # response
        /\ response'.tool \in BoardTools
        /\ response'.text \notin {"TypeError", "taskId and comment are required",
                                   "taskId is required"})
       => (/\ response'.isError
           /\ response'.text = "ClickUp is not configured"
           /\ response'.requests = {})]_vars

\* C12: updateConfig done twice with the same argument leaves the server as
\* updateConfig done once, and no step takes a board client away from a
\* server that holds one
C12_UpdateConfigKeepsClient ==
    [][/\ mcpServer.made =>
            \A ref \in StoreRefs :
                UpdatedServer(UpdatedServer(mcpServer, ref), ref)
                    = UpdatedServer(mcpServer, ref)
       /\ (mcpServer.made /\ mcpServer.clickUpClient) => mcpServer'.clickUpClient]_vars

\* the entries of all projects, in map order then upstream order
RECURSIVE AllEntries(_)
AllEntries(m) ==
    IF m = <<>> THEN <<>>
    ELSE [k \in DOMAIN Head(m).issues |->
             [project |-> Head(m).project, issue |-> Head(m).issues[k]]]
         \o AllEntries(Tail(m))

\* C13 (as claimed): a search lists at most `limit` issues for every limit
\* the caller gives and at most 25 when none is given; without term and
\* project filter it lists exactly the first min(limit, total) issues, in
\* project order then upstream order
C13_AtMostLimit ==
    call.fn = "searchIssues" =>
       LET cap == IF call.args.limit.has THEN call.args.limit.v ELSE 25
           all == AllEntries(call.map)
       IN /\ Len(result.entries) <= cap
          /\ (~call.args.search.has /\ ~call.args.project.has)
               => result.entries = SubSeq(all, 1, IF cap < Len(all) THEN cap ELSE Len(all))

\* C14: a search with the empty term lists the same issues as the search
\* without a term (same project filter, same limit, same tracker answer),
\* and the view with the empty term shows every issue it was handed
C14_EmptyTermIsNoTerm ==
    /\ (call.fn = "searchIssues" /\ call.args.search = Given(<<>>))
         => result.entries = SearchIssues([call.args EXCEPT !.search = NoTerm], call.map)
    /\ (call.fn = "filterAndSortIssues" /\ call.term = <<>>)
         => Range(result.entries) = Range(call.issues)

\* a search with the empty term that listed two issues or more
C14_Witness ==
    /\ call.fn = "searchIssues"
    /\ call.args.search = Given(<<>>)
    /\ Len(result.entries) >= 2

\* C19: two issues with equal sort keys (event count, last seen, first seen)
\* stand in the sorted list in the order they had in the input
C19_SortIsStable ==
    call.fn \in {"filterAndSortIssues", "sortIssues"} /\ call.sortBy \in SortKeys =>
        \A p, q \in DOMAIN result.entries :
            (p < q /\ KeyOf(result.entries[p], call.sortBy)
                        = KeyOf(result.entries[q], call.sortBy))
            => \E a, b \in DOMAIN call.issues :
                   /\ a < b
                   /\ call.issues[a] = result.entries[p]
                   /\ call.issues[b] = result.entries[q]

\* a list sorted by event count in which two issues with equal counts were
\* apart in the input and the sort moved another issue past them
C19_Witness ==
    /\ call.fn = "sortIssues"
    /\ call.sortBy = "count"
    /\ call.issues = <<"i1", "i3", "i2">>
    /\ result.entries = <<"i3", "i1", "i2">>

\* the identifier is the id or the shortId of an issue of the fetched map
Known(m, ident) ==
    \E i \in Range(AllValues(m)) : i = ident \/ Joined(ShortIdOf(i)) = ident

\* C15: resolve and details, given an identifier that is neither the id nor
\* the shortId of any issue, answer with the "Issue not found" error payload
\* and resolve sends nothing to the tracker; given one that is, resolve sends
\* exactly one update, status resolvedInNextRelease, for the id of an issue
\* the identifier names
C15_NotFoundOrOneMutation ==
    (call.fn \in {"resolveIssue", "getIssueDetails"}
        /\ call.args.given /\ call.args.id # Null) =>
       /\ ~Known(call.map, call.args.id) =>
             /\ result.payload.isError
             /\ result.payload.text = "Issue not found"
             /\ result.mutations = <<>>
       /\ (Known(call.map, call.args.id) /\ call.fn = "resolveIssue") =>
             /\ Len(result.mutations) = 1
             /\ result.mutations[1].status = "resolvedInNextRelease"
             /\ result.mutations[1].issue \in Range(AllValues(call.map))
             /\ \/ result.mutations[1].issue = call.args.id
                \/ Joined(ShortIdOf(result.mutations[1].issue)) = call.args.id

\* a resolve by shortId that sent its update for the issue's id
C15_Witness ==
    /\ call.fn = "resolveIssue"
    /\ call.args.given
    /\ call.args.id = "W1"
    /\ result.mutations = <<[issue |-> "i1", status |-> "resolvedInNextRelease"]>>

\* the lines the claim expects for a chain of exceptions: the last exception
\* first, and under each header its frames from the last received to the first
RECURSIVE ExpectedTrace(_)
ExpectedTrace(exceptions) ==
    IF exceptions = <<>> THEN <<>>
    ELSE LET e == exceptions[Len(exceptions)]
             n == IF e.frames.has THEN Len(e.frames.v) ELSE 0
         IN <<[kind |-> "exception", name |-> e.type]>>
            \o [j \in 1..n |-> [kind |-> "frame", name |-> e.frames.v[n + 1 - j]]]
            \o ExpectedTrace(SubSeq(exceptions, 1, Len(exceptions) - 1))

\* C17: the stack trace of the detail output (and of the prompt built by
\* extractStackTrace) lists the exceptions in the reverse of their stored
\* order and each exception's frames in the reverse of the order received
C17_FramesInnermostFirst ==
    /\ (call.fn = "getIssueDetails" /\ ~result.payload.isError
            /\ call.event.has /\ call.event.entry)
         => result.lines = ExpectedTrace(call.event.values)
    /\ (call.fn = "extractStackTrace" /\ call.event.entry)
         => result.lines = ExpectedTrace(call.event.values)

\* details of an issue whose event has two exceptions, the second one with
\* frames outer, middle, inner: inner is listed first
C17_Witness ==
    /\ call.fn = "getIssueDetails"
    /\ ~result.payload.isError
    /\ Len(call.event.values) = 2
    /\ call.event.values[2].frames = Given(<<"outer", "middle", "inner">>)
    /\ result.lines[1] = [kind |-> "exception", name |-> call.event.values[2].type]
    /\ result.lines[2] = [kind |-> "frame", name |-> "inner"]

\* the status vocabulary sources of a status update, in the order tried: the
\* list statuses embedded in the task, the task-level status list, the
\* separately fetched list, the task's current status
StatusSources ==
    << IF call.task.list.has THEN call.task.list.statuses.v ELSE <<>>,
       call.task.statuses.v,
       IF call.task.list.has /\ call.task.list.id /\ call.list.ok
       THEN call.list.statuses.v ELSE <<>>,
       IF call.task.status.has THEN <<call.task.status.v>> ELSE <<>> >>

\* the first non-empty one of the first n sources (<<>> when all are empty)
FirstNonEmpty(n) ==
    LET full == {k \in 1..n : StatusSources[k] # <<>>}
    IN IF full = {} THEN <<>>
       ELSE StatusSources[CHOOSE k \in full : \A h \in full : k <= h]

\* the requested name equals, letter case aside, a status of the vocabulary
AskedIsIn(vocabulary) ==
    \E k \in DOMAIN vocabulary :
        ToLowerCase(vocabulary[k]) = ToLowerCase(call.statusName)

\* C16 as stated: the status change is sent only if the requested name
\* matches a status of the first non-empty source among the three (embedded
\* list statuses, task-level statuses, fetched list); otherwise the update
\* fails naming the available statuses and sends no change
C16_ThreeSources ==
    (call.fn = "updateTaskStatus" /\ call.task.ok) =>
       IF AskedIsIn(FirstNonEmpty(3))
       THEN TRUE
       ELSE /\ result.error = "Status not found"
            /\ ~\E k \in DOMAIN result.requests : result.requests[k] = "put"

\* C16 amended: the vocabulary is the first non-empty source among the three
\* and, after them, the task's current status. The change is sent, once and
\* with the requested name, exactly if the name matches; otherwise the update
\* fails naming that vocabulary and sends no change
C16_FourSources ==
    (call.fn = "updateTaskStatus" /\ call.task.ok) =>
       IF AskedIsIn(FirstNonEmpty(4))
       THEN /\ result.error # "Status not found"
            /\ result.put = Given(call.statusName)
            /\ Cardinality({k \in DOMAIN result.requests :
                               result.requests[k] = "put"}) = 1
       ELSE /\ result.error = "Status not found"
            /\ result.named = FirstNonEmpty(4)
            /\ ~\E k \in DOMAIN result.requests : result.requests[k] = "put"

\* the scenario of the claim: list statuses [a, b] embedded in the task, a
\* third name asked for, the error names the two
C16_Witness ==
    /\ call.fn = "updateTaskStatus"
    /\ call.task.ok
    /\ call.task.list.has
    /\ call.task.list.statuses = Given(<< <<"a">>, <<"b">> >>)
    /\ call.statusName = <<"t">>
    /\ result.error = "Status not found"
    /\ result.named = << <<"a">>, <<"b">> >>
    /\ result.requests = <<"getTask">>

\* a text is a task-board URL: the head, then one or more word characters
IsTaskUrl(str) ==
    /\ Len(str) >= 2
    /\ str[1] = UrlHead
    /\ \A j \in 2..Len(str) : str[j] \in WordChars

\* the pieces of a text that are task-board URLs, as [from, to]
UrlsIn(text) ==
    {<<a, b>> \in (1..Len(text)) \X (1..Len(text)) :
        a <= b /\ IsTaskUrl(SubSeq(text, a, b))}

\* the first of them: none starts before it and none starting there is longer
FirstUrlIn(text) ==
    LET first == CHOOSE u \in UrlsIn(text) :
                     \A w \in UrlsIn(text) :
                         u[1] < w[1] \/ (u[1] = w[1] /\ u[2] >= w[2])
    IN SubSeq(text, first[1], first[2])

\* C18: the correlator's match is the first URL of the first comment that
\* contains one; a thread without one yields no match and leaves the entry
\* of the issue as it was
C18_FirstUrlOfFirstComment ==
    (call.fn = "parseClickUpUrlFromComments" /\ call.ok) =>
       LET holders == {k \in DOMAIN call.thread :
                          UrlsIn(call.thread[k].v) # {}}
       IN IF holders = {}
          THEN result.url = Null /\ result.mapping["i1"] = call.existing
          ELSE result.url =
                  Joined(FirstUrlIn(
                      call.thread[CHOOSE k \in holders :
                                      \A h \in holders : k <= h].v))

\* the comment of the claim, after one without a URL, gives the URL of the
\* claim
C18_Witness ==
    /\ call.fn = "parseClickUpUrlFromComments"
    /\ call.ok
    /\ Len(call.thread) = 2
    /\ call.thread[1] = Given(<<"a", "b">>)
    /\ call.thread[2] = Given(<<"S", "e", "e", " ", UrlHead, "a", "b", "c", "1",
                                "2", "3", " ", "f", "o", "r">>)
    /\ result.url = "https://app.clickup.com/t/abc123"

\* C20: a resolveIssue or createClickUpTask of the view that has failed has
\* shown a notification, and the issue mapping and the task mapping are what
\* they were when its message arrived
C20_NoPartialMutation ==
    (call.fn \in {"webview.createClickUpTask", "webview.resolveIssue"}
        /\ call.pc = "failed") =>
       /\ result.notification \in {"error", "warning"}
       /\ issuesByProject = call.before.issuesByProject
       /\ issueTaskMap = call.before.issueTaskMap

\* C21: with no board config the board integration is reported as not
\* enabled once the calls in flight have returned, and no step adds an entry
\* to the task mapping
C21_DisabledWithoutBoardConfig ==
    /\ []((~clickUpConfig.present /\ \A p \in Tasks : task[p].pc = "idle")
             => ~isEnabled)
    /\ [][(~clickUpConfig.present /\ ~clickUpConfig'.present) =>
             \A i \in AllIssues :
                 issueTaskMap[i] = Null => issueTaskMap'[i] = Null]_vars

\* C22: while the tracker config is absent the issue groups shown to the
\* view are empty, and no tool call is answered
C22_DisabledWithoutTrackerConfig ==
    /\ [](~extension.configured => AllValues(issuesByProject) = <<>>)
    /\ [][~extension.configured => response' = response]_vars

\* C23: when a fetch pass ends in which the fetch of a project failed, the
\* store (which the view renders) keeps the issues it held for that project
C23_LastKnownGoodKept ==
    [][lastPass' # lastPass =>
         \A k \in DOMAIN lastPass'.resp :
             LET g == lastPass'.resp[k].project IN
             (/\ ~lastPass'.resp[k].answer.ok
              /\ MapHas(issuesByProject, g)
              /\ MapGet(issuesByProject, g) # <<>>)
                 => /\ MapHas(issuesByProject', g)
                    /\ MapGet(issuesByProject', g) = MapGet(issuesByProject, g)]_vars

C25_FailedCommentsSkipped ==
    (/\ call.fn = "correlation"
     /\ call.pass = lastPass
     /\ task[1].pc # "fetch"
     /\ ~(task[1].pc = "correlate" /\ task[1].lastScan = NoScan)) =>
       LET all == AllValues(lastPass.result)
           n == Len(call.visits)
       IN /\ n <= Len(all)
          /\ \A k \in 1..n : call.visits[k].issue = all[k]
          /\ task[1].pc = "correlate" => task[1].scan = SubSeq(all, n + 1, Len(all))
          /\ task[1].pc = "idle" =>
                /\ n = Len(all)
                /\ lastDone.ret = "ok"
                /\ lastDone.fired >= 1
          /\ \A k \in 1..n :
                issueTaskMap[all[k]] =
                   IF call.visits[k].answer \in Urls THEN call.visits[k].answer
                   ELSE call.before[all[k]]

\* the request for the first issue failed, the second issue's thread held a
\* URL, which is in the mapping, and the call has returned
C25_Witness ==
    /\ call.fn = "correlation"
    /\ call.pass = lastPass
    /\ Len(call.visits) = 2
    /\ call.visits[1].answer = Fail
    /\ call.visits[2].answer \in Urls
    /\ issueTaskMap[call.visits[2].issue] = call.visits[2].answer
    /\ task[1].pc = "idle"
    /\ lastDone.ret = "ok"

\* the visits of the correlation pass of the call that returned last
OwnVisits ==
    IF call.fn = "correlation" /\ call.pass = lastPass
          /\ AllValues(lastPass.result) # <<>>
    THEN call.visits ELSE <<>>

\* C26: when an initialize has returned, every entry of the task mapping
\* was written by a visit of its own correlation pass
C26_InitializeClearsMappings ==
    (lastDone.op = "initialize" /\ task[1].pc = "idle") =>
       \A i \in AllIssues :
           issueTaskMap[i] # Null =>
              \E k \in DOMAIN OwnVisits :
                  /\ OwnVisits[k].issue = i
                  /\ OwnVisits[k].answer = issueTaskMap[i]

\* C27 -- a refresh the interval timer starts and one the user starts go
\* through the same in-flight guard, so at no moment are two fetchAllIssues
\* passes awaiting the tracker.
C27_TimerAndUserCoalesced ==
    Cardinality({t \in Triggers : webviewProvider.loads[t].pc = "fetch"}) <= 1

\* C28 -- a recomputation by the view (filter, sort, statistics) leaves the
\* issue sequence held in the snapshot as it was, in order and content, for
\* every search term and sort key.
C28_RecomputationKeepsSnapshot ==
    call.fn = "App" => result.snapshot = call.issues

\* C29 -- once the refreshes have all returned, the issue mapping is the
\* result of the fetch pass that was started last: a pass started earlier
\* that ends later does not put its own result over it.
C29_LastStartedWins ==
    (/\ call.fn = "passes"
     /\ call.latest.n > 0
     /\ \A p \in Tasks : task[p].pc = "idle")
        => issuesByProject = call.latest.result

\* C30 -- IssueStore.isRefreshing is set exactly while a refresh is past the
\* guard, and a refresh that set it always clears it, the cache write saved
\* or thrown: a set flag leads to a cleared one, so a later refresh can
\* start a fetch again.
C30_FlagClearedWhenRefreshEnds ==
    /\ [](issueStore.isRefreshing <=> storeCall.pc # "idle")
    /\ (issueStore.isRefreshing ~> ~issueStore.isRefreshing)

\* a refresh has stored its result, its cache write has thrown, and it has
\* returned with the flag cleared
C30_Witness ==
    /\ storeCall.pc = "idle"
    /\ ~issueStore.isRefreshing
    /\ issueStore.issuesByProject # EmptyMap
    /\ ~issueStore.cached.present

====
